---- MODULE Spec2Model ----
(***************************************************************************)
(* A model of the amplify-automations close pipeline.                      *)
(*                                                                         *)
(*   SpecRunner  run_pipeline (amplify_automations/runner.py) driving the  *)
(*               Step contract (plan_io, before, run, after) and building  *)
(*               one StepLog per step.                                     *)
(*   SpecTB      TBCollector.run (amplify_automations/plugins/             *)
(*               tb_collector.py) over a folder of trial-balance files,    *)
(*               on both table backends (pandas / CSV fallback).           *)
(*   SpecFX      FXTranslator.run (plugins/fx_translator.py).              *)
(*   SpecLetters ClientEngagementLetterDraft.run (amplify_automations/     *)
(*               plugins/client_engagement_letter_draft.py).               *)
(*   SpecParams  one pass of the runner's loop body over one step, as far  *)
(*               as the step's reads of its parameters.                    *)
(*   SpecPDF     PDFAssembler.run (amplify_automations/plugins/            *)
(*               pdf_assembler.py).                                        *)
(*   SpecCodec   write_excel followed by read_excel (core/io_utils.py).    *)
(*   SpecCatalog calls of register_tutorial (amplify_automations/core/     *)
(*               tutorial_catalog.py).                                     *)
(***************************************************************************)
EXTENDS Integers, Sequences, FiniteSets, TLC

(***************************************************************************)
(* Bounds of the model.                                                    *)
(***************************************************************************)
\* longest configured pipeline list
MaxSteps == 2
\* most trial-balance files in the TB folder
MaxFiles == 2
\* most consecutive runs of TBCollector on the same folder
MaxRuns == 2
\* most rows in the master trial balance FXTranslator reads
MaxRows == 2
\* most client records in the metadata file of ClientEngagementLetterDraft
MaxClients == 2
\* most entries in the include list of PDFAssembler
MaxInclude == 2
\* most rows handed to write_excel
MaxTableRows == 2

\* the calls of register_tutorial that are followed
MaxCalls == 2

(***************************************************************************)
(* Generic helpers.                                                        *)
(***************************************************************************)
Range(s) == {s[i] : i \in 1..Len(s)}

\* list(s) and dict(f): the same sequence and the same mapping, built once
\* (a function written [x \in S |-> e] is otherwise re-evaluated at each use)
ListOf(s) == s \o <<>>
DictOf(f) == f @@ <<>>

SeqsUpTo(S, n) == UNION {[1..k -> S] : k \in 0..n}

VARIABLES
    \* ---- run_pipeline ----
    pipeline,   \* config["pipeline"]: the configured step names, in order
    rpc,        \* where run_pipeline stands
    idx,        \* 1-based index of the item the for loop is on (0: none yet)
    io,         \* the StepIO planned for the current step
    result,     \* the ValidationResult returned by the current step's run
    logs,       \* the local list `logs`
    retval,     \* what the caller received: [delivered, logs]
    disk,       \* the file system: path -> [kind: absent | dir | file, data]
    hist,       \* observation: every hook the runner has invoked, in order
    \* ---- TBCollector ----
    hasPandas,  \* HAS_PANDAS: the table backend (FALSE: the CSV fallback)
    reqCols,    \* cfg["params"]["required_columns"]
    enforce,    \* cfg["params"].get("enforce_balanced", True)
    masterName, \* expand(naming["master_tb"], period=period)
    folder,     \* the TB_*_{period}.xlsx files of folders["tb"], in glob order
    master,     \* the master file on disk: [exists, cols, rows]
    tpc,        \* where TBCollector.run stands: idle | loop | done
    matched,    \* the files the glob of this run yields
    fi,         \* how many of them the loop has accepted
    allRows,    \* all_rows
    metrics,    \* metrics
    messages,   \* messages
    tbResult,   \* what run gave: [returned, raised, ok, messages, metrics]
    readLog,    \* observation: the names of the files this run has read
    master0,    \* observation: the master file as this run found it
    outcomes,   \* observation: one record per finished run
    \* ---- FXTranslator ----
    fxPandas,   \* HAS_PANDAS of core.io_utils: the table backend
    fxMaster,   \* the file at io.inputs["master_tb"]: [exists, cols, rows]
    fxRates,    \* the file at io.inputs["fx_rates"]: [exists, cols, rows]
    fxTol,      \* cfg["params"].get("tolerance"): [set, v]
    fxpc,       \* where FXTranslator.run stands: idle | done
    fxResult,   \* what run gave: [returned, raised, ok, messages, metrics]
    fxOut,      \* the output files: [adjusted_tb, fx_adjustments]
    fxOut0,     \* observation: the output files as this run found them
    fxOutcomes, \* observation: one record per finished run
    \* ---- ClientEngagementLetterDraft ----
    celFrames,      \* the tables reach run as pandas frames (Excel sheets,
                    \* HAS_PANDAS); FALSE: lists of string records (.json,
                    \* .csv or the CSV fallback of read_excel)
    celPeriod,      \* self.period
    celMeta,        \* the file at io.inputs["client_metadata"]: [exists, rows]
    celService,     \* the file at io.inputs["service_lines"]: [exists, rows]
    celTemplate,    \* the file at io.inputs["template_path"]: [exists, text]
    celPrior,       \* io.inputs.get("prior_letters_folder"): [configured, exists, files]
    celRecipients,  \* params.get("notification_recipients", [])
    cpc,            \* where ClientEngagementLetterDraft.run stands: idle | loop | done
    ci,             \* how many records the loop has been through
    metadata_rows,  \* metadata_rows
    service_index,  \* service_index
    manifest,       \* manifest
    exceptions,     \* exceptions
    rolled_forward, \* rolled_forward
    celMessages,    \* messages
    celMetrics,     \* metrics
    celResult,      \* what run gave: [returned, raised, ok, messages, metrics]
    celOut,         \* the output files: [dir, letters, manifest, notification]
    celTrace,       \* observation: what the loop did with each record
    \* ---- one step of the pipeline and its parameters ----
    step_name,      \* item["step"]
    step_cfg,       \* step_cfg: [params: the item has a params block, keys: its keys]
    spc,            \* where the loop body stands: new | planned | ready | ran | done
    calls,          \* observation: the methods of the step entered so far
    raisedIn,       \* observation: the method an exception came out of ("": none)
    \* ---- PDFAssembler ----
    include,        \* cfg["params"]["include"], each entry expanded
    pdfDisk,        \* the files run touches: path -> [exists, data]
    pdfpc,          \* where PDFAssembler.run stands: loop | done
    pdfs,           \* pdfs
    pdfResult,      \* what run gave: [returned, raised, ok, messages, metrics]
    pdfDisk0,       \* observation: the files as the run found them
    \* ---- write_excel / read_excel ----
    cdPandas,       \* HAS_PANDAS
    cdCols,         \* list(rows[0].keys())
    cdRows,         \* the rows handed to write_excel
    cdFile,         \* the file at path: [exists, cols, rows]
    cdBack,         \* what read_excel returned: [cols, rows]
    cdpc,           \* new | written | read
    \* ---- register_tutorial ----
    catFiles,       \* the catalogue files: path -> [exists, data]
    catCall,        \* observation: the last call and what it found
    catCalls        \* the number of calls made

runnerVars == <<pipeline, rpc, idx, io, result, logs, retval, disk, hist>>

tbVars == <<hasPandas, reqCols, enforce, masterName, folder, master, tpc, matched,
            fi, allRows, metrics, messages, tbResult, readLog, master0, outcomes>>

fxVars == <<fxPandas, fxMaster, fxRates, fxTol, fxpc, fxResult, fxOut, fxOut0,
            fxOutcomes>>

letterVars == <<celFrames, celPeriod, celMeta, celService, celTemplate, celPrior,
                celRecipients, cpc, ci, metadata_rows, service_index, manifest,
                exceptions, rolled_forward, celMessages, celMetrics, celResult,
                celOut, celTrace>>

paramVars == <<step_name, step_cfg, spc, calls, raisedIn>>

pdfVars == <<include, pdfDisk, pdfpc, pdfs, pdfResult, pdfDisk0>>

codecVars == <<cdPandas, cdCols, cdRows, cdFile, cdBack, cdpc>>

catalogVars == <<catFiles, catCall, catCalls>>

vars == <<runnerVars, tbVars, fxVars, letterVars, paramVars, pdfVars, codecVars,
         catalogVars>>

\* what the actions of run_pipeline leave alone
notRunner ==
    <<tbVars, fxVars, letterVars, paramVars, pdfVars, codecVars, catalogVars>>

\* what the actions of TBCollector leave alone
notTB ==
    <<runnerVars, fxVars, letterVars, paramVars, pdfVars, codecVars, catalogVars>>

\* what the actions of FXTranslator leave alone
notFX ==
    <<runnerVars, tbVars, letterVars, paramVars, pdfVars, codecVars, catalogVars>>

\* what ClientEngagementLetterDraft leaves alone
notLetters ==
    <<runnerVars, tbVars, fxVars, paramVars, pdfVars, codecVars, catalogVars>>

\* what the parameter accesses of a step leave alone
notParams ==
    <<runnerVars, tbVars, fxVars, letterVars, pdfVars, codecVars, catalogVars>>

\* what write_excel and read_excel leave alone
notCodec ==
    <<runnerVars, tbVars, fxVars, letterVars, paramVars, pdfVars, catalogVars>>

\* what register_tutorial leaves alone
notCatalog ==
    <<runnerVars, tbVars, fxVars, letterVars, paramVars, pdfVars, codecVars>>

\* what PDFAssembler leaves alone
notPDF ==
    <<runnerVars, tbVars, fxVars, letterVars, paramVars, codecVars, catalogVars>>

(***************************************************************************)
(* run_pipeline                                                            *)
(***************************************************************************)
\* core/registry.py: the names the plugin modules registered
Registered == {"TBCollector", "FXTranslator", "PDFAssembler"}

\* the step names a configuration may list; "Ghost" is registered nowhere
StepNames == Registered \cup {"Ghost"}

\* config["period"]
Period == "202301"

\* the paths the steps of the model plan
Paths == {"tb", "tb/Master_TB_202301.xlsx", "fx/Rates_202301.xlsx",
          "tb/Master_TB_202301_Adjusted.xlsx", "fx/FXAdj_202301.xlsx",
          "support/Support_202301.pdf"}

NoIO == [inputs |-> <<>>, outputs |-> <<>>]
NoResult == [ok |-> FALSE, messages |-> <<>>, metrics |-> <<>>]

\* plan_io of each registered step: logical name -> path
PlanIOOf(name) ==
    CASE name = "TBCollector" ->
           [inputs  |-> [tb_folder |-> "tb"],
            outputs |-> [master_tb |-> "tb/Master_TB_202301.xlsx"]]
      [] name = "FXTranslator" ->
           [inputs  |-> [master_tb |-> "tb/Master_TB_202301.xlsx",
                         fx_rates  |-> "fx/Rates_202301.xlsx"],
            outputs |-> [adjusted_tb    |-> "tb/Master_TB_202301_Adjusted.xlsx",
                         fx_adjustments |-> "fx/FXAdj_202301.xlsx"]]
      [] OTHER ->
           [inputs  |-> <<>>,
            outputs |-> [support |-> "support/Support_202301.pdf"]]

\* the ValidationResults a step's run may return
ResultsOf(name) ==
    {[ok |-> TRUE,  messages |-> <<name, "done">>, metrics |-> [rows |-> 4]],
     [ok |-> FALSE, messages |-> <<name, "failed">>, metrics |-> [rows |-> 0]]}

Absent == [kind |-> "absent", data |-> 0]
Dir == [kind |-> "dir", data |-> 0]
File(c) == [kind |-> "file", data |-> c]

\* the empty string, as a sequence of characters
EmptyStr == <<>>

\* Path(v).is_file()
IsFile(d, p) == d[p].kind = "file"

\* _hash_file: the digest of the content; "" when the file is missing
HashFile(d, p) == IF d[p].kind = "file" THEN <<"md5", d[p].data>> ELSE EmptyStr

\* {k: _hash_file(v) for k, v in m.items() if Path(v).is_file()}
HashesOf_EveryName(d, m) == [k \in DOMAIN m |-> HashFile(d, m[k])]

HashesOf(d, m) ==
    LET keep == {k \in DOMAIN m : IsFile(d, m[k])}
    IN  [k \in keep |-> HashFile(d, m[k])]

\* mutant of MkStepLog: the status no longer follows result.ok
MkStepLog_StatusAlwaysOk(name, res, sio, d) ==
    [step_name     |-> name,
     period        |-> Period,
     status        |-> "ok",
     messages      |-> res.messages,
     metrics       |-> res.metrics,
     input_hashes  |-> HashesOf(d, sio.inputs),
     output_hashes |-> HashesOf(d, sio.outputs)]

\* the StepLog run_pipeline builds after the step's after hook
MkStepLog(name, res, sio, d) ==
    [step_name     |-> name,
     period        |-> Period,
     status        |-> IF res.ok THEN "ok" ELSE "error",
     messages      |-> res.messages,
     metrics       |-> res.metrics,
     input_hashes  |-> HashesOf(d, sio.inputs),
     output_hashes |-> HashesOf(d, sio.outputs)]

\* the outputs a step's run wrote: content id = the step's index
WriteOutputs(d, sio, w, c) ==
    [p \in Paths |-> IF \E k \in w : sio.outputs[k] = p THEN File(c) ELSE d[p]]

Event(i, ev, res) == [i |-> i, ev |-> ev, res |-> res]

InitRunner ==
    /\ pipeline \in SeqsUpTo(StepNames, MaxSteps)
    /\ rpc = "loop"
    /\ idx = 0
    /\ io = NoIO
    /\ result = NoResult
    /\ logs = <<>>
    /\ retval = [delivered |-> FALSE, logs |-> <<>>]
    /\ \E rates \in {Absent, File(0)} :
          disk = [p \in Paths |-> IF p = "tb" THEN Dir
                                  ELSE IF p = "fx/Rates_202301.xlsx" THEN rates
                                  ELSE Absent]
    /\ hist = <<>>

\* where the loop goes once a step's log has been appended
AfterLog == "loop"

\* for item in config["pipeline"]: get_step, then the step's constructor
GetStep ==
    /\ rpc = "loop"
    /\ idx < Len(pipeline)
    /\ idx' = idx + 1
    /\ \/ /\ pipeline[idx + 1] \in Registered
          /\ rpc' = "plan_io"
       \/ /\ pipeline[idx + 1] \notin Registered    \* KeyError
          /\ rpc' = "raised"
    /\ UNCHANGED <<pipeline, io, result, logs, retval, disk, hist>>
    /\ UNCHANGED notRunner

\* io = step.plan_io()
PlanIO ==
    /\ rpc = "plan_io"
    /\ hist' = Append(hist, Event(idx, "plan_io", NoResult))
    /\ \/ /\ io' = PlanIOOf(pipeline[idx])
          /\ rpc' = "before"
       \/ /\ io' = io                               \* a missing folder or name
          /\ rpc' = "raised"
    /\ UNCHANGED <<pipeline, idx, result, logs, retval, disk>>
    /\ UNCHANGED notRunner

\* step.before(io)
Before ==
    /\ rpc = "before"
    /\ hist' = Append(hist, Event(idx, "before", NoResult))
    /\ \/ rpc' = "run"
       \/ rpc' = "raised"                           \* an overriding hook raises
    /\ UNCHANGED <<pipeline, idx, io, result, logs, retval, disk>>
    /\ UNCHANGED notRunner

\* result = step.run(io)
RunStep ==
    /\ rpc = "run"
    /\ \E w \in {{}, DOMAIN io.outputs} :
          /\ disk' = WriteOutputs(disk, io, w, idx)
          /\ \/ \E res \in ResultsOf(pipeline[idx]) :
                   /\ result' = res
                   /\ hist' = Append(hist, Event(idx, "run", res))
                   /\ rpc' = "after"
             \/ /\ result' = result                 \* run raises
                /\ hist' = Append(hist, Event(idx, "run", NoResult))
                /\ rpc' = "raised"
    /\ UNCHANGED <<pipeline, idx, io, logs, retval>>
    /\ UNCHANGED notRunner

\* mutant of After: the hook is skipped for a failed result
After_SkippedOnError ==
    /\ rpc = "after"
    /\ hist' = IF result.ok THEN Append(hist, Event(idx, "after", result)) ELSE hist
    /\ rpc' = "log"
    /\ UNCHANGED <<pipeline, idx, io, result, logs, retval, disk>>
    /\ UNCHANGED notRunner

\* step.after(io, result)
After ==
    /\ rpc = "after"
    /\ hist' = Append(hist, Event(idx, "after", result))
    /\ \/ rpc' = "log"
       \/ rpc' = "raised"                           \* an overriding hook raises
    /\ UNCHANGED <<pipeline, idx, io, result, logs, retval, disk>>
    /\ UNCHANGED notRunner

\* log = StepLog(...); logs.append(log)
AppendLog ==
    /\ rpc = "log"
    /\ logs' = Append(logs, MkStepLog(pipeline[idx], result, io, disk))
    /\ hist' = Append(hist, Event(idx, "log", result))
    /\ rpc' = AfterLog
    /\ UNCHANGED <<pipeline, idx, io, result, retval, disk>>
    /\ UNCHANGED notRunner

\* return logs
Return_AfterRaise ==
    /\ rpc \in {"loop", "raised"}
    /\ rpc = "loop" => idx = Len(pipeline)
    /\ rpc' = "returned"
    /\ retval' = [delivered |-> TRUE, logs |-> logs]
    /\ UNCHANGED <<pipeline, idx, io, result, logs, disk, hist>>
    /\ UNCHANGED notRunner

Return ==
    /\ rpc = "loop"
    /\ idx = Len(pipeline)
    /\ rpc' = "returned"
    /\ retval' = [delivered |-> TRUE, logs |-> logs]
    /\ UNCHANGED <<pipeline, idx, io, result, logs, disk, hist>>
    /\ UNCHANGED notRunner

NextRunner ==
    \/ GetStep
    \/ PlanIO
    \/ Before
    \/ RunStep
    \/ After
    \/ AppendLog
    \/ Return


(***************************************************************************)
(* Tables: cells, column names, normalisation (core/normalization.py).     *)
(***************************************************************************)
\* A cell of a table.  Amounts are integers counting thousandths.
\*   Num(n)      a number
\*   NumText(n)  a string that spells the number n ("100.0")
\*   Text(s)     any other string
\*   NaN         a missing value (pandas NaN)
Num(n) == [t |-> "num", n |-> n, s |-> ""]
NumText(n) == [t |-> "numtext", n |-> n, s |-> ""]
Text(s) == [t |-> "text", n |-> 0, s |-> s]
NaN == [t |-> "nan", n |-> 0, s |-> ""]

\* SCHEMAS["TB"]
SchemaTB == <<"EntityCode", "AccountCode", "AccountName", "Debit", "Credit",
              "Period", "CurrencyCode">>

\* COLUMN_ALIASES, the entries of the TB schema
ColumnAliases ==
    [
     EntityCode |-> <<"Entity", "Company", "CompanyCode", "CoCode", "LegalEntity", "LE">>,
     AccountCode |-> <<"GL", "GLCode", "Account", "Acct", "GL Account", "Account Number">>,
     AccountName |-> <<"AccountDesc", "Account Description", "GL Name">>,
     Debit |-> <<"Dr", "Debits", "Debit Amount">>,
     Credit |-> <<"Cr", "Credits", "Credit Amount">>,
     Period |-> <<"FiscalPeriod", "PeriodId", "YYYYMM", "PostingPeriod">>,
     CurrencyCode |-> <<"Currency", "Curr", "ISO Currency", "LCY">>
    ]

\* str.lower() on the column names of the model
Lower(c) ==
    CASE
         c = "EntityCode" -> "entitycode"
      [] c = "Entity" -> "entity"
      [] c = "Company" -> "company"
      [] c = "CompanyCode" -> "companycode"
      [] c = "CoCode" -> "cocode"
      [] c = "LegalEntity" -> "legalentity"
      [] c = "LE" -> "le"
      [] c = "AccountCode" -> "accountcode"
      [] c = "GL" -> "gl"
      [] c = "GLCode" -> "glcode"
      [] c = "Account" -> "account"
      [] c = "Acct" -> "acct"
      [] c = "GL Account" -> "gl account"
      [] c = "Account Number" -> "account number"
      [] c = "AccountName" -> "accountname"
      [] c = "AccountDesc" -> "accountdesc"
      [] c = "Account Description" -> "account description"
      [] c = "GL Name" -> "gl name"
      [] c = "Debit" -> "debit"
      [] c = "Dr" -> "dr"
      [] c = "Debits" -> "debits"
      [] c = "Debit Amount" -> "debit amount"
      [] c = "Credit" -> "credit"
      [] c = "Cr" -> "cr"
      [] c = "Credits" -> "credits"
      [] c = "Credit Amount" -> "credit amount"
      [] c = "Period" -> "period"
      [] c = "FiscalPeriod" -> "fiscalperiod"
      [] c = "PeriodId" -> "periodid"
      [] c = "YYYYMM" -> "yyyymm"
      [] c = "PostingPeriod" -> "postingperiod"
      [] c = "CurrencyCode" -> "currencycode"
      [] c = "Currency" -> "currency"
      [] c = "Curr" -> "curr"
      [] c = "ISO Currency" -> "iso currency"
      [] c = "LCY" -> "lcy"
      [] c = "Amount" -> "amount"
      [] c = "Memo" -> "memo"
      [] c = "DEBIT" -> "debit"
      [] OTHER -> c

\* position of the first TRUE of a sequence of booleans, 0 when there is none
FirstTrue(b) ==
    IF \E i \in 1..Len(b) : b[i]
    THEN CHOOSE i \in 1..Len(b) : b[i] /\ \A j \in 1..(i - 1) : ~b[j]
    ELSE 0

\* position of the last TRUE of a sequence of booleans, 0 when there is none
LastTrue(b) ==
    IF \E i \in 1..Len(b) : b[i]
    THEN CHOOSE i \in 1..Len(b) : b[i] /\ \A j \in (i + 1)..Len(b) : ~b[j]
    ELSE 0

\* cols = {c.lower(): c for c in df.columns}; cols.get(key): the last column
\* whose lower-cased name is key, "" when there is none
ColByLower(cols, key) ==
    LET i == LastTrue([j \in 1..Len(cols) |-> Lower(cols[j]) = key])
    IN  IF i = 0 THEN "" ELSE cols[i]

\* resolve_columns, the column found for `want`: the exact (case-insensitive)
\* match, else the first alias present; "" when nothing matches.  Fuzzy
\* matching is optional (rapidfuzz) and matches none of the model's names.
FoundFor(cols, want) ==
    IF ColByLower(cols, Lower(want)) # ""
    THEN ColByLower(cols, Lower(want))
    ELSE LET alts == ColumnAliases[want]
             k == FirstTrue([j \in 1..Len(alts) |-> ColByLower(cols, Lower(alts[j])) # ""])
         IN  IF k = 0 THEN "" ELSE ColByLower(cols, Lower(alts[k]))

\* resolve_columns, new_cols[c]: the schema name column c is renamed to (the
\* last target that found it), c itself when no target found it
RenamedTo(cols, c) ==
    LET k == LastTrue([j \in 1..Len(SchemaTB) |-> FoundFor(cols, SchemaTB[j]) = c])
    IN  IF k = 0 THEN c ELSE SchemaTB[k]

\* resolve_columns(df, SCHEMAS["TB"], COLUMN_ALIASES): df.rename(columns=new_cols)
ResolveColumns(df) ==
    LET new == ListOf([i \in 1..Len(df.cols) |-> RenamedTo(df.cols, df.cols[i])])
        old == DictOf([c \in Range(new) |->
                         df.cols[FirstTrue([j \in 1..Len(new) |-> new[j] = c])]])
    IN  [cols |-> new,
         rows |-> ListOf([i \in 1..Len(df.rows) |->
                            DictOf([c \in Range(new) |-> df.rows[i][old[c]]])])]

\* pd.to_numeric(x, errors="coerce") followed by fillna(0): the number a cell
\* holds or spells, 0 for anything else
ToNumeric(cell) == IF cell.t \in {"num", "numtext"} THEN cell.n ELSE 0

\* str.upper() on the currency codes of the model
Upper(s) ==
    CASE s = "usd" -> "USD"
      [] s = "gbp" -> "GBP"
      [] s = "nan" -> "NAN"
      [] OTHER -> s

\* str.replace(r"[^0-9]", "").slice(0, 6) on the period strings of the model
Digits6(s) ==
    CASE s = "2023-01" -> "202301"
      [] s = "202301" -> "202301"
      [] s = "P2023/01/31" -> "202301"
      [] OTHER -> ""

\* astype(str): the string a cell turns into (no cell of the model's Period
\* and CurrencyCode columns is a number)
AsStr(cell) == IF cell.t = "text" THEN cell.s ELSE "nan"

\* coerce_tb_types, one cell of column c
CoerceCell(c, cell) ==
    CASE c \in {"Debit", "Credit"} -> Num(ToNumeric(cell))
      [] c = "Period" -> Text(Digits6(AsStr(cell)))
      [] c = "CurrencyCode" -> Text(Upper(AsStr(cell)))
      [] OTHER -> cell

\* coerce_tb_types: coerce Debit/Credit/Period/CurrencyCode and add every
\* schema column the frame lacks (NaN, 0.0 for Debit and Credit)
CoerceTbTypes(df) ==
    LET have == Range(df.cols)
        add == SelectSeq(SchemaTB, LAMBDA c : c \notin have)
        all == df.cols \o add
    IN  [cols |-> all,
         rows |-> ListOf([i \in 1..Len(df.rows) |->
                      DictOf([c \in Range(all) |->
                          IF c \in have THEN CoerceCell(c, df.rows[i][c])
                          ELSE IF c \in {"Debit", "Credit"} THEN Num(0)
                          ELSE NaN])])]

\* infer_entity_from_filename: group 1 of TB_([^_\.]+) in the file name
InferEntity(name) ==
    CASE name = "TB_E1_202301.xlsx" -> "E1"
      [] name = "TB_E2_202301.xlsx" -> "E2"
      [] name = "TB_E3_202301.xlsx" -> "E3"
      [] name = "TB_E4_202301.xlsx" -> "E4"
      [] name = "TB_E5_202301.xlsx" -> "E5"
      [] name = "TB_E6_202301.xlsx" -> "E6"
      [] name = "TB_E7_202301.xlsx" -> "E7"
      [] name = "TB_E8_202301.xlsx" -> "E8"
      [] name = "TB_E9_202301.xlsx" -> "E9"
      [] name = "TB_Master_202301.xlsx" -> "Master"
      [] OTHER -> ""

\* infer_period_from_filename: the first (20\d{2})(0[1-9]|1[0-2]) in the name;
\* every name the glob TB_*_202301.xlsx matches holds 202301
InferPeriod(name) == IF InferEntity(name) # "" THEN "202301" ELSE ""

\* df[c].isna() | (df[c] == "")
IsBlank(cell) == cell.t = "nan" \/ (cell.t = "text" /\ cell.s = "")

\* df[c] = value
SetColumn(df, c, cell) ==
    [cols |-> IF c \in Range(df.cols) THEN df.cols ELSE Append(df.cols, c),
     rows |-> ListOf([i \in 1..Len(df.rows) |->
                  DictOf([k \in Range(df.cols) \cup {c} |->
                      IF k = c THEN cell ELSE df.rows[i][k]])])]

\* metrics.get(k, 0)
Get0(m, k) == IF k \in DOMAIN m THEN m[k] ELSE 0

\* metrics[k] = metrics.get(k, 0) + n
Bump(m, k, n) == (k :> (Get0(m, k) + n)) @@ m

\* _normalise_with_pandas, the test that guards the Amount split
AmountSplitApplies(cols) ==
    "Amount" \in cols /\ (("Debit" \notin cols) \/ ("Credit" \notin cols))

\* np.where(amt > 0, amt, 0.0) and np.where(amt < 0, -amt, 0.0)
SplitAmount(df) ==
    LET cs == Range(df.cols) \cup {"Debit", "Credit"}
        amt(i) == ToNumeric(df.rows[i]["Amount"])
    IN  [cols |-> df.cols \o SelectSeq(<<"Debit", "Credit">>,
                                      LAMBDA c : c \notin Range(df.cols)),
         rows |-> ListOf([i \in 1..Len(df.rows) |->
                      DictOf([k \in cs |->
                          IF k = "Debit" THEN Num(IF amt(i) > 0 THEN amt(i) ELSE 0)
                          ELSE IF k = "Credit" THEN Num(IF amt(i) < 0 THEN -amt(i) ELSE 0)
                          ELSE df.rows[i][k]])])]

\* a plausible slip: only the columns of the TB schema are looked for
MissingFrom_SchemaOnly(req, existing) ==
    SelectSeq(req, LAMBDA c : c \notin existing /\ c \in Range(SchemaTB))

\* [c for c in cols if c not in existing]
MissingFrom(req, existing) == SelectSeq(req, LAMBDA c : c \notin existing)

\* the one element of a singleton set: binds a computed value to a name
The(S) == CHOOSE x \in S : TRUE

\* df = read_excel(path); df = resolve_columns(df, ...); the aliased_columns
\* metric counts the column names the renaming introduced
Resolved(f, m0) ==
    The({[df |-> d,
          m |-> Bump(m0, "aliased_columns",
                     Cardinality(Range(d.cols) \ Range(f.cols)))] :
         d \in {ResolveColumns([cols |-> f.cols, rows |-> f.rows])}})

\* df = coerce_tb_types(df)
Coerced(s) == [df |-> CoerceTbTypes(s.df), m |-> s.m]

\* c in df.columns and (df[c].isna() | (df[c] == "")).all()
AllBlank(df, c) ==
    /\ c \in Range(df.cols)
    /\ \A i \in 1..Len(df.rows) : IsBlank(df.rows[i][c])

\* the EntityCode column filled from the file name when it is all blank
WithEntity(s, name) ==
    IF AllBlank(s.df, "EntityCode") /\ InferEntity(name) # ""
    THEN [df |-> SetColumn(s.df, "EntityCode", Text(InferEntity(name))),
          m |-> Bump(s.m, "entity_inferred_from_filename", 1)]
    ELSE s

\* the Period column filled from the file name when it is all blank
WithPeriod(s, name) ==
    IF AllBlank(s.df, "Period") /\ InferPeriod(name) # ""
    THEN [df |-> SetColumn(s.df, "Period", Text(InferPeriod(name))),
          m |-> Bump(s.m, "period_inferred_from_filename", 1)]
    ELSE s

\* Debit and Credit derived from Amount when the guard lets the split run
WithAmountSplit(s) ==
    IF AmountSplitApplies(Range(s.df.cols))
    THEN [df |-> SplitAmount(s.df),
          m |-> Bump(s.m, "coerced_numeric_cells", Len(s.df.rows))]
    ELSE s

\* missing = [c for c in req_cols if c not in df.columns]; None with a message
\* when a required column is missing, else df[req_cols + extras] as records
CheckedColumns(s, f, req, msgs) ==
    IF MissingFrom(req, Range(s.df.cols)) # <<>>
    THEN [ok |-> FALSE, rows |-> <<>>, metrics |-> s.m,
          messages |-> Append(msgs, <<f.name, "unresolved columns",
                                      MissingFrom(req, Range(s.df.cols))>>)]
    ELSE [ok |-> TRUE, rows |-> s.df.rows, metrics |-> s.m, messages |-> msgs]

\* _normalise_with_pandas(path, req_cols, metrics, messages): the records of
\* the file, or None (ok = FALSE) with a message appended
NormaliseWithPandas(f, req, m0, msgs) ==
    The({CheckedColumns(s5, f, req, msgs) :
         s5 \in {WithAmountSplit(s4) :
         s4 \in {WithPeriod(s3, f.name) :
         s3 \in {WithEntity(s2, f.name) :
         s2 \in {Coerced(s1) :
         s1 \in {Resolved(f, m0)}}}}}})

\* float(val or 0): [err, nan, v]; a non-numeric string raises ValueError
FloatOr0(cell) ==
    CASE cell.t \in {"num", "numtext"} -> [err |-> FALSE, nan |-> FALSE, v |-> cell.n]
      [] cell.t = "nan" -> [err |-> FALSE, nan |-> TRUE, v |-> 0]
      [] cell.s = "" -> [err |-> FALSE, nan |-> FALSE, v |-> 0]
      [] OTHER -> [err |-> TRUE, nan |-> FALSE, v |-> 0]

\* not r.get(key): the key is missing or its value is falsy
Falsy(r, key) ==
    \/ key \notin DOMAIN r
    \/ (r[key].t = "text" /\ r[key].s = "")
    \/ (r[key].t = "num" /\ r[key].n = 0)

\* r[key] = cell
SetKey(r, key, cell) == (key :> cell) @@ r

\* _normalise_without_pandas, the body of the loop over the rows
NormaliseRow(row, name) ==
    LET val == IF FloatOr0(row["Amount"]).err \/ FloatOr0(row["Amount"]).nan
               THEN 0 ELSE FloatOr0(row["Amount"]).v
        r1 == IF "Debit" \notin DOMAIN row /\ "Credit" \notin DOMAIN row
                 /\ "Amount" \in DOMAIN row
              THEN SetKey(SetKey(row, "Debit", Num(IF val > 0 THEN val ELSE 0)),
                          "Credit", Num(IF val < 0 THEN -val ELSE 0))
              ELSE row
        r2 == IF "CurrencyCode" \in DOMAIN r1 /\ r1["CurrencyCode"].t = "text"
              THEN SetKey(r1, "CurrencyCode", Text(Upper(r1["CurrencyCode"].s)))
              ELSE r1
        r3 == IF Falsy(r2, "EntityCode") /\ InferEntity(name) # ""
              THEN SetKey(r2, "EntityCode", Text(InferEntity(name)))
              ELSE r2
        r4 == IF Falsy(r3, "Period") /\ InferPeriod(name) # ""
              THEN SetKey(r3, "Period", Text(InferPeriod(name)))
              ELSE r3
    IN  r4

\* _columns_of(rows): the keys of the first row, nothing for an empty list
ColumnsOf(rows) == IF rows = <<>> THEN {} ELSE DOMAIN rows[1]

\* require_columns(obj, cols)
RequireColumns(rows, cols) == MissingFrom(cols, ColumnsOf(rows))

\* _normalise_without_pandas(path, req_cols, metrics, messages)
NormaliseWithoutPandas(f, req, m0, msgs) ==
    LET rowsOut == ListOf([i \in 1..Len(f.rows) |-> NormaliseRow(f.rows[i], f.name)])
        missing == RequireColumns(rowsOut, req)
    IN  IF missing # <<>>
        THEN [ok |-> FALSE, rows |-> <<>>, metrics |-> m0,
              messages |-> Append(msgs, <<f.name, "missing", missing>>)]
        ELSE [ok |-> TRUE, rows |-> rowsOut, metrics |-> m0, messages |-> msgs]

(***************************************************************************)
(* core/validation_utils.py and core/io_utils.py                           *)
(***************************************************************************)
RECURSIVE SumSeq(_)
\* the sum of a sequence of integers
SumSeq(s) == IF s = <<>> THEN 0 ELSE s[1] + SumSeq(Tail(s))

Abs(n) == IF n < 0 THEN -n ELSE n

\* round(x, 2), in hundredths, of an amount in thousandths (no total of the
\* model lies exactly half way, where the float's last bit decides)
Round2(n) == IF n < 0 THEN -((-n + 5) \div 10) ELSE (n + 5) \div 10

\* a plausible slip: the difference cut to whole units, int(...) == 0
BalancedTotals_Truncated(debit, credit) == Abs(debit - credit) \div 1000 = 0

\* round(debit_total - credit_total, 2) == 0.0
BalancedTotals(debit, credit) == Round2(debit - credit) = 0

\* debits_equal_credits(pd.DataFrame(rows)): a frame built from no record has
\* no column at all; totals by pd.to_numeric(errors="coerce").fillna(0).sum()
DebitsEqualCreditsDF(rows) ==
    /\ rows # <<>>
    /\ {"Debit", "Credit"} \subseteq UNION {DOMAIN rows[i] : i \in 1..Len(rows)}
    /\ BalancedTotals(
          SumSeq([i \in 1..Len(rows) |-> IF "Debit" \in DOMAIN rows[i] THEN ToNumeric(rows[i]["Debit"]) ELSE 0]),
          SumSeq([i \in 1..Len(rows) |-> IF "Credit" \in DOMAIN rows[i] THEN ToNumeric(rows[i]["Credit"]) ELSE 0]))

\* row.get(key, 0), then float(val or 0)
FloatOfKey(r, key) ==
    IF key \in DOMAIN r THEN FloatOr0(r[key])
    ELSE [err |-> FALSE, nan |-> FALSE, v |-> 0]

\* _sum_numeric(rows, key) is NaN: a value raised or is NaN
SumIsNaN(rows, key) ==
    \E i \in 1..Len(rows) : FloatOfKey(rows[i], key).err \/ FloatOfKey(rows[i], key).nan

\* debits_equal_credits(rows) on a list of dicts
DebitsEqualCreditsRows(rows) ==
    /\ RequireColumns(rows, <<"Debit", "Credit">>) = <<>>
    /\ ~SumIsNaN(rows, "Debit")
    /\ ~SumIsNaN(rows, "Credit")
    /\ BalancedTotals(
          SumSeq([i \in 1..Len(rows) |-> FloatOfKey(rows[i], "Debit").v]),
          SumSeq([i \in 1..Len(rows) |-> FloatOfKey(rows[i], "Credit").v]))

\* the balance check TBCollector.run applies on each backend
DebitsEqualCredits(hp, rows) ==
    IF hp THEN DebitsEqualCreditsDF(rows) ELSE DebitsEqualCreditsRows(rows)

\* str(v), what csv.DictWriter writes for a value
StrCell(cell) ==
    CASE cell.t = "num" -> NumText(cell.n)
      [] cell.t = "nan" -> Text("nan")
      [] OTHER -> cell

\* one row of the table written: the columns cols of record r; a key the
\* record lacks is NaN (DataFrame) or the empty string (DictWriter restval)
ProjectRow(hp, r, cols) ==
    DictOf([c \in Range(cols) |->
        IF c \in DOMAIN r THEN (IF hp THEN r[c] ELSE StrCell(r[c]))
        ELSE (IF hp THEN NaN ELSE Text(""))])

\* write_excel(rows, path, headers=cols) with a non-empty header list, as
\* TBCollector calls it.  [file, raised]:
\*   pandas: no rows -> pd.DataFrame(), a sheet without any header;
\*           else DataFrame(rows, columns=cols).to_excel
\*   CSV:    the header, then each row; DictWriter raises ValueError on the
\*           first row holding a key outside cols, leaving the rows before it
WriteExcel(hp, rows, cols) ==
    IF hp
    THEN [file |-> [exists |-> TRUE,
                    cols |-> IF rows = <<>> THEN <<>> ELSE cols,
                    rows |-> ListOf([i \in 1..Len(rows) |-> ProjectRow(hp, rows[i], cols)])],
          raised |-> FALSE]
    ELSE LET bad == FirstTrue([j \in 1..Len(rows) |-> ~(DOMAIN rows[j] \subseteq Range(cols))])
             n == IF bad = 0 THEN Len(rows) ELSE bad - 1
         IN  [file |-> [exists |-> TRUE,
                        cols |-> cols,
                        rows |-> ListOf([i \in 1..n |-> ProjectRow(hp, rows[i], cols)])],
              raised |-> bad # 0]

(***************************************************************************)
(* TBCollector (amplify_automations/plugins/tb_collector.py)               *)
(***************************************************************************)
\* the file names of the model that the glob TB_*_202301.xlsx matches
GlobNames == {"TB_E1_202301.xlsx", "TB_E2_202301.xlsx", "TB_E3_202301.xlsx",
              "TB_E4_202301.xlsx", "TB_E5_202301.xlsx", "TB_E6_202301.xlsx",
              "TB_E7_202301.xlsx", "TB_E8_202301.xlsx", "TB_Master_202301.xlsx"}

\* a sheet over the canonical columns
StdRow(e, a, d, c) ==
    [EntityCode |-> Text(e), AccountCode |-> Text(a), Debit |-> d, Credit |-> c]

\* the trial-balance files a folder may hold, as typed sheets
TypedPool ==
    { \* balanced
      [name |-> "TB_E1_202301.xlsx",
       cols |-> <<"EntityCode", "AccountCode", "Debit", "Credit">>,
       rows |-> <<StdRow("E1", "A1", Num(1000), Num(0)),
                  StdRow("E1", "A2", Num(0), Num(1000))>>],
      \* totals 0.004 apart
      [name |-> "TB_E2_202301.xlsx",
       cols |-> <<"EntityCode", "AccountCode", "Debit", "Credit">>,
       rows |-> <<StdRow("E2", "A1", Num(500), Num(0)),
                  StdRow("E2", "A2", Num(0), Num(504))>>],
      \* unbalanced
      [name |-> "TB_E3_202301.xlsx",
       cols |-> <<"EntityCode", "AccountCode", "Debit", "Credit">>,
       rows |-> <<StdRow("E3", "A1", Num(1000), Num(0)),
                  StdRow("E3", "A2", Num(0), Num(500))>>],
      \* a single Amount column
      [name |-> "TB_E4_202301.xlsx",
       cols |-> <<"EntityCode", "AccountCode", "Amount">>,
       rows |-> <<[EntityCode |-> Text("E4"), AccountCode |-> Text("A1"), Amount |-> Num(1000)],
                  [EntityCode |-> Text("E4"), AccountCode |-> Text("A2"), Amount |-> Num(-1000)],
                  [EntityCode |-> Text("E4"), AccountCode |-> Text("A3"), Amount |-> Num(0)]>>],
      \* aliased column names
      [name |-> "TB_E5_202301.xlsx",
       cols |-> <<"Entity", "Account", "dr", "Cr">>,
       rows |-> <<[Entity |-> Text("E5"), Account |-> Text("A1"), dr |-> Num(700), Cr |-> Num(0)],
                  [Entity |-> Text("E5"), Account |-> Text("A2"), dr |-> Num(0), Cr |-> Num(700)]>>],
      \* no Credit column
      [name |-> "TB_E6_202301.xlsx",
       cols |-> <<"EntityCode", "AccountCode", "Debit">>,
       rows |-> <<[EntityCode |-> Text("E6"), AccountCode |-> Text("A1"), Debit |-> Num(0)]>>],
      \* one more column, a blank entity and an amount typed as text
      [name |-> "TB_E7_202301.xlsx",
       cols |-> <<"EntityCode", "AccountCode", "Debit", "Credit", "Memo">>,
       rows |-> <<StdRow("", "A1", Num(300), Num(0)) @@ [Memo |-> Text("m")],
                  StdRow("", "A2", Num(0), NumText(300)) @@ [Memo |-> Text("m")]>>],
      \* a header and no row
      [name |-> "TB_E8_202301.xlsx",
       cols |-> <<"EntityCode", "AccountCode", "Debit", "Credit">>,
       rows |-> <<>>] }

\* a file as the backend stores it: typed cells in a workbook, text in a CSV
OnDisk(hp, f) ==
    [name |-> f.name,
     cols |-> f.cols,
     rows |-> ListOf([i \in 1..Len(f.rows) |->
                  DictOf([c \in DOMAIN f.rows[i] |->
                      IF hp THEN f.rows[i][c] ELSE StrCell(f.rows[i][c])])])]

\* the folders of the model: up to MaxFiles files of different names
Folders(hp) ==
    {s \in SeqsUpTo({OnDisk(hp, f) : f \in TypedPool}, MaxFiles) :
        \A i, j \in 1..Len(s) : i # j => s[i].name # s[j].name}

\* the required_columns lists of the model
ReqChoices ==
    { <<"EntityCode", "AccountCode", "Debit", "Credit">>,
      <<"EntityCode", "AccountCode", "Debit", "Credit", "Period">>,
      <<"EntityCode", "AccountCode", "Debit", "Credit", "Period", "Memo">> }

NoFile == [exists |-> FALSE, cols |-> <<>>, rows |-> <<>>]

\* a master left by an earlier run on other inputs
StaleMaster(hp, req) ==
    WriteExcel(hp, <<[c \in Range(req) |-> Text("old")]>>, req).file

NoTbResult ==
    [returned |-> FALSE, raised |-> FALSE, ok |-> FALSE,
     messages |-> <<>>, metrics |-> <<>>]

\* ValidationResult(ok, messages, metrics)
TbReturn(ok, msgs, m) ==
    [returned |-> TRUE, raised |-> FALSE, ok |-> ok, messages |-> msgs, metrics |-> m]

\* Path(tb_folder).glob(f"TB_*_{period}.xlsx"): the files of the folder whose
\* name matches, the master among them when its name matches (the directory
\* may list it before or after the others)
GlobResults ==
    LET hit == SelectSeq(folder, LAMBDA f : f.name \in GlobNames)
        m == [name |-> masterName, cols |-> master.cols, rows |-> master.rows]
    IN  IF master.exists /\ masterName \in GlobNames
        THEN {hit \o <<m>>, <<m>> \o hit}
        ELSE {hit}

\* the normalisation TBCollector.run applies on each backend
Normalise(hp, f, req, m, msgs) ==
    IF hp THEN NormaliseWithPandas(f, req, m, msgs)
    ELSE NormaliseWithoutPandas(f, req, m, msgs)

InitTB ==
    /\ hasPandas \in BOOLEAN
    /\ reqCols \in ReqChoices
    /\ enforce \in BOOLEAN
    /\ folder \in Folders(hasPandas)
    \* naming["master_tb"]: the conventional Master_TB_{period}.xlsx, with or
    \* without a master of an earlier period close, or a name that the input
    \* pattern matches too
    /\ \E c \in {"absent", "stale", "matching"} :
          /\ masterName = IF c = "matching" THEN "TB_Master_202301.xlsx"
                          ELSE "Master_TB_202301.xlsx"
          /\ master = IF c = "stale" THEN StaleMaster(hasPandas, reqCols) ELSE NoFile
    /\ tpc = "idle"
    /\ matched = <<>>
    /\ fi = 0
    /\ allRows = <<>>
    /\ metrics = <<>>
    /\ messages = <<>>
    /\ tbResult = NoTbResult
    /\ readLog = <<>>
    /\ master0 = master
    /\ outcomes = <<>>

\* TBCollector.run up to the glob: req_cols, all_rows, metrics, messages
TBStart ==
    /\ tpc = "idle"
    /\ Len(outcomes) < MaxRuns
    /\ matched' \in GlobResults
    /\ fi' = 0
    /\ allRows' = <<>>
    /\ metrics' = [files |-> 0, rows |-> 0]
    /\ messages' = <<>>
    /\ tbResult' = NoTbResult
    /\ readLog' = <<>>
    /\ master0' = master
    /\ tpc' = "loop"
    /\ UNCHANGED <<hasPandas, reqCols, enforce, masterName, folder, master, outcomes>>
    /\ UNCHANGED notTB

\* a plausible slip: all_rows = rows
Extend_Overwrite(all, rows) == rows

\* all_rows.extend(rows)

Extend(all, rows) == all \o rows

\* rows is None: return ValidationResult(False, messages, metrics)
FileRejected(f, n) ==
    /\ ~n.ok
    /\ tbResult' = TbReturn(FALSE, n.messages, n.metrics)
    /\ messages' = n.messages
    /\ metrics' = n.metrics
    /\ tpc' = "done"
    /\ UNCHANGED <<fi, allRows>>

\* a plausible slip: the unbalanced file is reported and skipped (continue)
FileUnbalanced_Continue(f, n) ==
    /\ n.ok
    /\ enforce
    /\ ~DebitsEqualCredits(hasPandas, n.rows)
    /\ messages' = Append(n.messages, <<f.name, "debits != credits">>)
    /\ metrics' = n.metrics
    /\ fi' = fi + 1
    /\ UNCHANGED <<tbResult, tpc, allRows>>

\* enforce_balanced and not debits_equal_credits(rows): the message, then
\* return ValidationResult(False, messages, metrics)
FileUnbalanced(f, n) ==
    /\ n.ok
    /\ enforce
    /\ ~DebitsEqualCredits(hasPandas, n.rows)
    /\ messages' = Append(n.messages, <<f.name, "debits != credits">>)
    /\ metrics' = n.metrics
    /\ tbResult' = TbReturn(FALSE, messages', n.metrics)
    /\ tpc' = "done"
    /\ UNCHANGED <<fi, allRows>>

\* all_rows.extend(rows); metrics["files"] += 1; metrics["rows"] += len(rows)
FileAccepted(f, n) ==
    /\ n.ok
    /\ enforce => DebitsEqualCredits(hasPandas, n.rows)
    /\ allRows' = Extend(allRows, n.rows)
    /\ metrics' = [n.metrics EXCEPT !["files"] = @ + 1,
                                     !["rows"] = @ + Len(n.rows)]
    /\ messages' = n.messages
    /\ fi' = fi + 1
    /\ UNCHANGED <<tbResult, tpc>>

\* one pass of the loop over the matched files
TBProcessFile ==
    /\ tpc = "loop"
    /\ fi < Len(matched)
    /\ \E f \in {matched[fi + 1]} :
       \E n \in {Normalise(hasPandas, f, reqCols, metrics, messages)} :
           /\ readLog' = Append(readLog, f.name)
           /\ \/ FileRejected(f, n)
              \/ FileUnbalanced(f, n)
              \/ FileAccepted(f, n)
    /\ UNCHANGED <<hasPandas, reqCols, enforce, masterName, folder, master, matched,
                   master0, outcomes>>
    /\ UNCHANGED notTB

\* after the loop: write_excel(all_rows, master, headers=req_cols) and return
TBWriteMaster ==
    /\ tpc = "loop"
    /\ fi = Len(matched)
    /\ LET w == WriteExcel(hasPandas, allRows, reqCols)
       IN  /\ master' = w.file
           /\ \/ /\ w.raised                               \* ValueError
                 /\ tbResult' = [NoTbResult EXCEPT !.raised = TRUE]
                 /\ UNCHANGED messages
              \/ /\ ~w.raised
                 /\ messages' = Append(messages,
                       <<"Master TB", "rows", Len(allRows), "files", metrics["files"]>>)
                 /\ tbResult' = TbReturn(TRUE, messages', metrics)
    /\ tpc' = "done"
    /\ UNCHANGED <<hasPandas, reqCols, enforce, masterName, folder, matched, fi,
                   allRows, metrics, readLog, master0, outcomes>>
    /\ UNCHANGED notTB

\* run is over; the caller may run the step again on the same folder
TBFinish ==
    /\ tpc = "done"
    /\ outcomes' = Append(outcomes, [result |-> tbResult, master |-> master])
    /\ tpc' = "idle"
    /\ UNCHANGED <<hasPandas, reqCols, enforce, masterName, folder, master, matched,
                   fi, allRows, metrics, messages, tbResult, readLog, master0>>
    /\ UNCHANGED notTB

NextTB ==
    \/ TBStart
    \/ TBProcessFile
    \/ TBWriteMaster
    \/ TBFinish

(***************************************************************************)
(* FXTranslator (plugins/fx_translator.py)                                 *)
(***************************************************************************)
\* the order sorted() puts the currency codes of the model in
CodeRank(c) ==
    CASE c = "" -> 0
      [] c = "EUR" -> 1
      [] c = "GBP" -> 2
      [] c = "JPY" -> 3
      [] c = "USD" -> 4
      [] OTHER -> 5

RECURSIVE SortedCodes(_)
\* sorted(S) for a set of strings
SortedCodes(S) ==
    IF S = {} THEN <<>>
    ELSE LET least == CHOOSE c \in S : \A d \in S : CodeRank(c) <= CodeRank(d)
         IN  <<least>> \o SortedCodes(S \ {least})

\* _load_rates: {row["CurrencyCode"]: float(row["FXRate"]) for row in rows};
\* a code listed twice keeps its last rate (rates are in thousandths)
LoadRates(rows) ==
    DictOf([c \in {rows[i]["CurrencyCode"].s : i \in 1..Len(rows)} |->
        ToNumeric(rows[LastTrue([i \in 1..Len(rows) |->
                                    rows[i]["CurrencyCode"].s = c])]["FXRate"])])

\* rates.get(code) is not None
HasRate(rt, row) ==
    row["CurrencyCode"].t = "text" /\ row["CurrencyCode"].s \in DOMAIN rt

\* n / d rounded to the nearest integer (no product of the model lies half way)
RoundDiv(n, d) == IF n < 0 THEN -((-n + d \div 2) \div d) ELSE (n + d \div 2) \div d

\* float(row.get("Debit", 0) or 0) - float(row.get("Credit", 0) or 0); NaN is
\* truthy, so a NaN cell stays NaN
LocalAmountOf(row) ==
    IF FloatOfKey(row, "Debit").nan \/ FloatOfKey(row, "Credit").nan THEN NaN
    ELSE Num(FloatOfKey(row, "Debit").v - FloatOfKey(row, "Credit").v)

\* a plausible slip: the amount left unrounded to 2 decimals
Reporting_Unrounded(local, rate) ==
    IF local.t = "nan" THEN NaN ELSE Num(RoundDiv(local.n * rate, 1000))

\* round(row["LocalAmount"] * rate, 2), in thousandths
Reporting(local, rate) ==
    IF local.t = "nan" THEN NaN ELSE Num(10 * RoundDiv(local.n * rate, 10000))

\* float(...) raises ValueError on a Debit or Credit that is not a number
AmountRaises(row) == FloatOfKey(row, "Debit").err \/ FloatOfKey(row, "Credit").err

\* the loop body for a row whose currency has a rate
Translated(row, rate) ==
    SetKey(SetKey(SetKey(row, "FXRate", Num(rate)),
                  "LocalAmount", LocalAmountOf(row)),
           "ReportingCurrencyAmount", Reporting(LocalAmountOf(row), rate))

\* r.get(key)
GetOrNone(r, key) == IF key \in DOMAIN r THEN r[key] ELSE NaN

\* one record of fx_adj
FxAdjRow_RowPeriod(r) ==
    [EntityCode |-> GetOrNone(r, "EntityCode"),
     AccountCode |-> GetOrNone(r, "AccountCode"),
     LocalAmount |-> r["LocalAmount"],
     FXRate |-> r["FXRate"],
     ReportingCurrencyAmount |-> r["ReportingCurrencyAmount"],
     Period |-> GetOrNone(r, "Period")]

FxAdjRow(r) ==
    [EntityCode |-> GetOrNone(r, "EntityCode"),
     AccountCode |-> GetOrNone(r, "AccountCode"),
     LocalAmount |-> r["LocalAmount"],
     FXRate |-> r["FXRate"],
     ReportingCurrencyAmount |-> r["ReportingCurrencyAmount"],
     Period |-> Text(Period)]

FxAdjCols == <<"EntityCode", "AccountCode", "LocalAmount", "FXRate",
               "ReportingCurrencyAmount", "Period">>

FxAddedCols == <<"FXRate", "LocalAmount", "ReportingCurrencyAmount">>

\* write_excel(rows, path) without headers: the columns are the keys of the
\* first row, none when there is no row
WriteRows(hp, rows, cols) ==
    WriteExcel(hp, rows, IF rows = <<>> THEN <<>> ELSE cols).file

\* ValidationResult(ok, messages, metrics), metrics {} by default
NoMetrics == [k \in {} |-> 0]

FxReturn(ok, msgs, m) ==
    [returned |-> TRUE, raised |-> FALSE, ok |-> ok, messages |-> msgs, metrics |-> m]

FxRaise(exc) ==
    [returned |-> FALSE, raised |-> TRUE, ok |-> FALSE, messages |-> <<exc>>,
     metrics |-> NoMetrics]

\* a plausible slip: another default
Tolerance_DefaultZero(tol) == IF tol.set THEN tol.v ELSE 0

\* params.get("tolerance", 5)
Tolerance(tol) == IF tol.set THEN tol.v ELSE 5

\* the codes of missing_codes: strings, and NaN for a blank cell read by pandas
MissingCodes(tb, rt) ==
    {tb[i]["CurrencyCode"] : i \in {j \in 1..Len(tb) : ~HasRate(rt, tb[j])}}

\* sorted(set(missing_codes)) raises TypeError when it compares a str with
\* the float NaN
SortRaises(codes) ==
    (\E c \in codes : c.t = "text") /\ (\E c \in codes : c.t # "text")

\* sorted(set(missing_codes)), as the list printed in the message
SortedMissing(codes) ==
    IF \E c \in codes : c.t # "text" THEN <<"nan">>
    ELSE SortedCodes({c.s : c \in codes})

\* FXTranslator.run once both files are read: [result, out]
FxTranslate(hp, tb, rt, cols, tol, out) ==
    IF tb # <<>> /\ "CurrencyCode" \notin DOMAIN tb[1]
    THEN [result |-> FxReturn(FALSE, <<<<"Missing CurrencyCode in TB">>>>, NoMetrics),
          out |-> out]
    ELSE IF \E i \in 1..Len(tb) : HasRate(rt, tb[i]) /\ AmountRaises(tb[i])
    THEN [result |-> FxRaise("ValueError"), out |-> out]
    ELSE IF MissingCodes(tb, rt) # {}
    THEN IF SortRaises(MissingCodes(tb, rt))
         THEN [result |-> FxRaise("TypeError"), out |-> out]
         ELSE [result |-> FxReturn(FALSE,
                              <<<<"Missing FX rates for", SortedMissing(MissingCodes(tb, rt))>>>>,
                              NoMetrics),
               out |-> out]
    ELSE The({[result |-> FxReturn(TRUE, <<<<"Applied FX to", Len(tb), "rows">>>>,
                                   [rows |-> Len(tb), tolerance |-> Tolerance(tol)]),
               out |-> [adjusted_tb |-> WriteRows(hp, rows, cols \o FxAddedCols),
                        fx_adjustments |->
                            WriteRows(hp, ListOf([i \in 1..Len(rows) |-> FxAdjRow(rows[i])]),
                                      FxAdjCols)]] :
              rows \in {ListOf([i \in 1..Len(tb) |->
                                   Translated(tb[i], rt[tb[i]["CurrencyCode"].s])])}})

\* FXTranslator.run(io): read_excel raises FileNotFoundError on a file that
\* does not exist, and nothing in run catches it
FXTranslatorRun(hp, mfile, rfile, tol, out) ==
    IF ~mfile.exists \/ ~rfile.exists
    THEN [result |-> FxRaise("FileNotFoundError"), out |-> out]
    ELSE FxTranslate(hp, mfile.rows, LoadRates(rfile.rows), mfile.cols, tol, out)

\* the rows a master trial balance may hold (amounts in thousandths), all of
\* an earlier period than the one configured
FxRowPool ==
    { [EntityCode |-> Text("US"), AccountCode |-> Text("A1"),
       Debit |-> Num(100000), Credit |-> Num(0), CurrencyCode |-> Text("USD"),
       Period |-> Text("202212")],
      [EntityCode |-> Text("GB"), AccountCode |-> Text("A1"),
       Debit |-> Num(0), Credit |-> Num(80000), CurrencyCode |-> Text("GBP"),
       Period |-> Text("202212")],
      [EntityCode |-> Text("DE"), AccountCode |-> Text("A1"),
       Debit |-> Num(0), Credit |-> Num(200000), CurrencyCode |-> Text("EUR"),
       Period |-> Text("202212")],
      \* an empty Debit cell
      [EntityCode |-> Text("US"), AccountCode |-> Text("A2"),
       Debit |-> NaN, Credit |-> Num(12340), CurrencyCode |-> Text("USD"),
       Period |-> Text("202212")],
      \* an empty CurrencyCode cell
      [EntityCode |-> Text("XX"), AccountCode |-> Text("A1"),
       Debit |-> Num(5000), Credit |-> Num(0), CurrencyCode |-> NaN,
       Period |-> Text("202212")],
      [EntityCode |-> Text("JP"), AccountCode |-> Text("A1"),
       Debit |-> Num(1000), Credit |-> Num(0), CurrencyCode |-> Text("JPY"),
       Period |-> Text("202212")] }

FxCols == <<"EntityCode", "AccountCode", "Debit", "Credit", "CurrencyCode",
            "Period">>

\* a cell as read_excel gives it: typed, an empty cell NaN, with pandas; the
\* text of the CSV field, an empty cell "", without
AsRead(hp, cell) ==
    IF hp THEN cell ELSE IF cell.t = "nan" THEN Text("") ELSE StrCell(cell)

\* a table file over the columns cols
TableFile(hp, cols, rows) ==
    [exists |-> TRUE, cols |-> cols,
     rows |-> ListOf([i \in 1..Len(rows) |->
                  DictOf([c \in Range(cols) |-> AsRead(hp, rows[i][c])])])]

\* the master trial balances of the model: none, or up to MaxRows rows, with
\* or without the CurrencyCode column
FxMasters(hp) ==
    {NoFile} \cup
    {TableFile(hp, cols, rows) :
        cols \in {FxCols, SubSeq(FxCols, 1, 4)},
        rows \in SeqsUpTo(FxRowPool, MaxRows)}

RateRow(c, r) == [CurrencyCode |-> Text(c), FXRate |-> Num(r)]

\* the rate files of the model: none, or a table of CurrencyCode and FXRate
FxRateFiles(hp) ==
    {NoFile} \cup
    {TableFile(hp, <<"CurrencyCode", "FXRate">>, rows) :
        rows \in { <<>>,
                   <<RateRow("USD", 1000), RateRow("GBP", 1280)>>,
                   <<RateRow("USD", 1000), RateRow("GBP", 1280), RateRow("EUR", 1100)>>,
                   <<RateRow("USD", 1000), RateRow("USD", 1050)>> }}

\* the tolerance a configuration may give
TolChoices == {[set |-> FALSE, v |-> 0], [set |-> TRUE, v |-> 0], [set |-> TRUE, v |-> 10]}

\* output files left by an earlier period close
StaleOut(hp) ==
    The({[adjusted_tb |-> f, fx_adjustments |-> f] :
         f \in {TableFile(hp, <<"Period">>, <<[Period |-> Text("old")]>>)}})

NoOut == [adjusted_tb |-> NoFile, fx_adjustments |-> NoFile]

InitFX ==
    /\ fxPandas \in BOOLEAN
    /\ fxMaster \in FxMasters(fxPandas)
    /\ fxRates \in FxRateFiles(fxPandas)
    /\ fxTol = [set |-> FALSE, v |-> 0]
    /\ fxpc = "idle"
    /\ fxResult = NoTbResult
    /\ fxOut \in {NoOut, StaleOut(fxPandas)}
    /\ fxOut0 = fxOut
    /\ fxOutcomes = <<>>

\* step.run(step.plan_io()) under some configured tolerance
FXRun ==
    /\ fxpc = "idle"
    /\ Len(fxOutcomes) < MaxRuns
    /\ fxTol' \in TolChoices
    /\ fxOut0' = fxOut
    /\ \E r \in {FXTranslatorRun(fxPandas, fxMaster, fxRates, fxTol', fxOut)} :
          /\ fxResult' = r.result
          /\ fxOut' = r.out
    /\ fxpc' = "done"
    /\ UNCHANGED <<fxPandas, fxMaster, fxRates, fxOutcomes>>
    /\ UNCHANGED notFX

\* run is over; the caller may run the step again on the same inputs
FXFinish ==
    /\ fxpc = "done"
    /\ fxOutcomes' = Append(fxOutcomes, [tol |-> fxTol, result |-> fxResult, out |-> fxOut])
    /\ fxpc' = "idle"
    /\ UNCHANGED <<fxPandas, fxMaster, fxRates, fxTol, fxResult, fxOut, fxOut0>>
    /\ UNCHANGED notFX

NextFX ==
    \/ FXRun
    \/ FXFinish

(***************************************************************************)
(* ClientEngagementLetterDraft                                             *)
(* (amplify_automations/plugins/client_engagement_letter_draft.py)         *)
(***************************************************************************)
\* None
NoneCell == [t |-> "none", n |-> 0, s |-> ""]

\* _extract_field(data, [key], default): the value under key unless it is
\* None, "" or []; NaN is none of these and is returned
ExtractField(data, key, default) ==
    IF key \in DOMAIN data /\ data[key] # NoneCell /\ data[key] # Text("")
    THEN data[key]
    ELSE default

\* bool(value) of a field value: None and "" are false, NaN is true
Truthy(cell) == cell # NoneCell /\ cell # Text("")

\* str(value)
CellStr(cell) == IF cell.t = "text" THEN cell.s ELSE "nan"

\* self.period[:4] if self.period else ""
Year4(p) == IF p = "202301" THEN "2023" ELSE ""

\* re.split(r"[;,]", values), the parts stripped, the empty parts dropped
SplitCodes(s) ==
    CASE s = "TAX" -> <<"TAX">>
      [] s = "tax; TAX; AUD" -> <<"tax", "TAX", "AUD">>
      [] s = "ZZZ" -> <<"ZZZ">>
      [] s = "ADV" -> <<"ADV">>
      [] OTHER -> <<>>

\* str.upper() on the service-line codes of the model
CodeUpper(c) ==
    CASE c = "tax" -> "TAX"
      [] c = "aud" -> "AUD"
      [] OTHER -> c

\* the loop that builds `ordered`: upper-cased, first occurrence kept
RECURSIVE Ordered(_, _)
Ordered(codes, acc) ==
    IF codes = <<>> THEN acc
    ELSE Ordered(Tail(codes),
                 IF CodeUpper(Head(codes)) \in Range(acc)
                 THEN acc
                 ELSE Append(acc, CodeUpper(Head(codes))))

\* _extract_service_codes(record): a string is split; NaN is neither a
\* string, a mapping nor an iterable and gives no codes
ExtractServiceCodes(record) ==
    IF "ServiceLines" \in DOMAIN record /\ record["ServiceLines"].t = "text"
    THEN Ordered(SplitCodes(record["ServiceLines"].s), <<>>)
    ELSE <<>>

\* _index_service_lines(rows): code.strip().upper() -> row, the last row of a
\* code winning, rows without a code skipped
IndexServiceLines(rows) ==
    LET keyed == {i \in 1..Len(rows) : Truthy(ExtractField(rows[i], "Code", NoneCell))}
    IN  DictOf([k \in {CodeUpper(CellStr(rows[i]["Code"])) : i \in keyed} |->
                  rows[CHOOSE i \in keyed :
                          /\ CodeUpper(CellStr(rows[i]["Code"])) = k
                          /\ \A j \in keyed :
                                CodeUpper(CellStr(rows[j]["Code"])) = k => j <= i]])

\* re.sub(r"[^A-Za-z0-9]+", "_", name).strip("_") or "client"
Slugify(name) ==
    CASE name = "Acme Inc" -> "Acme_Inc"
      [] name = "Acme, Inc." -> "Acme_Inc"
      [] name = "Beta LLC" -> "Beta_LLC"
      [] OTHER -> "client"

\* str(int(fiscal_year) - 1); "" stands for the ValueError of int()
PrevYear(fy) ==
    CASE fy = "2024" -> "2023"
      [] fy = "2023" -> "2022"
      [] OTHER -> ""

\* a letter file is named by its slug and its year:
\* f"{slug}_EngagementLetter_FY{year}.docx"
LetterName(slug, year) == <<slug, year>>

\* _locate_prior_letter(folder, client_name, fiscal_year): [found, name]
LocatePriorLetter(prior, name, fy) ==
    IF ~prior.exists \/ PrevYear(CellStr(fy)) = ""
    THEN [found |-> FALSE, name |-> LetterName("", "")]
    ELSE [found |-> LetterName(Slugify(name.s), PrevYear(CellStr(fy))) \in DOMAIN prior.files,
          name |-> LetterName(Slugify(name.s), PrevYear(CellStr(fy)))]

\* the fields of the record that are missing, in the order they are tested
MissingFields(name, id, fy, codes) ==
    (IF ~Truthy(name) THEN <<"client_name">> ELSE <<>>)
    \o (IF ~Truthy(id) THEN <<"client_id">> ELSE <<>>)
    \o (IF ~Truthy(fy) THEN <<"fiscal_year">> ELSE <<>>)
    \o (IF codes = <<>> THEN <<"service_lines">> ELSE <<>>)

\* invalid_codes: the codes the index lacks or lists without a rate
InvalidCodes(codes, index) ==
    SelectSeq(codes, LAMBDA c :
        \/ c \notin DOMAIN index
        \/ ExtractField(index[c], "Rate", NoneCell) \in {NoneCell, Text("")})

\* service_details
ServiceDetails(codes, index) ==
    ListOf([i \in 1..Len(codes) |->
        [code |-> codes[i], rate |-> ExtractField(index[codes[i]], "Rate", NoneCell)]])

\* ---- letter texts ----
\* A text is the sequence of its pieces: literal wording, {{Field}}
\* placeholders, values put in by the merge, the service summary, and the
\* wording "FY<year>".
Lit(w) == [k |-> "lit", v |-> w, d |-> <<>>]
Placeholder(field) == [k |-> "ph", v |-> field, d |-> <<>>]
Value(str) == [k |-> "val", v |-> str, d |-> <<>>]
Summary(details) == [k |-> "summary", v |-> "", d |-> details]
FYText(year) == [k |-> "fy", v |-> year, d |-> <<>>]

\* a plausible slip: only the first occurrence of each placeholder is replaced
MergeTemplate_FirstOnly(template, context) ==
    ListOf([i \in 1..Len(template) |->
        IF /\ template[i].k = "ph"
           /\ template[i].v \in DOMAIN context
           /\ \A j \in 1..(i - 1) : template[j] # template[i]
        THEN context[template[i].v]
        ELSE template[i]])

\* _merge_template(template, context): every "{{key}}" of the context is
\* replaced by str(value); the values of the model hold no "{{"
MergeTemplate(template, context) ==
    ListOf([i \in 1..Len(template) |->
        IF template[i].k = "ph" /\ template[i].v \in DOMAIN context
        THEN context[template[i].v]
        ELSE template[i]])

\* f"FY{fiscal_year}" in letter_text: written out, or "FY" followed by the
\* merged fiscal year
ContainsFY(text, year) ==
    \E i \in 1..Len(text) :
        \/ text[i] = FYText(year)
        \/ /\ text[i] = Lit("FY")
           /\ i < Len(text)
           /\ text[i + 1] = Value(year)

\* lines 194-207: the merge, then the service summary and the fiscal-year
\* line appended when the base text has no {{ServiceSummary}} and the merged
\* text no FY<fiscal year>
LetterText(base, name, id, fy, details, now) ==
    The({ The({ IF ContainsFY(t2, CellStr(fy))
                THEN t2
                ELSE t2 \o <<Lit("Fiscal Year:"), FYText(CellStr(fy))>> :
                t2 \in {IF Placeholder("ServiceSummary") \in Range(base)
                        THEN t1
                        ELSE t1 \o <<Lit("Service Summary:"), Summary(details)>>} }) :
          t1 \in {MergeTemplate(base,
                      [ClientName |-> Value(CellStr(name)),
                       ClientID |-> Value(CellStr(id)),
                       FiscalYear |-> Value(CellStr(fy)),
                       ServiceSummary |-> Summary(details),
                       GeneratedOn |-> Value(now)])} })

\* a plausible slip: the prior letter is never looked up
BaseOf_TemplateOnly(prior, located, template) ==
    [text |-> template, source |-> "template", rolled |-> 0, notFound |-> FALSE]

\* base_text and source: the prior letter's text when a prior folder is
\* configured, the letter is found and its text is not empty
BaseOf(prior, located, template) ==
    IF ~prior.configured
    THEN [text |-> template, source |-> "template", rolled |-> 0, notFound |-> FALSE]
    ELSE IF located.found
    THEN IF prior.files[located.name] # <<>>
         THEN [text |-> prior.files[located.name], source |-> "rolled_forward",
               rolled |-> 1, notFound |-> FALSE]
         ELSE [text |-> template, source |-> "template", rolled |-> 0, notFound |-> FALSE]
    ELSE [text |-> template, source |-> "template", rolled |-> 0, notFound |-> TRUE]

\* fiscal_year of a record: its FiscalYear, else the year of the period
FiscalYearOf(record, period) ==
    IF Truthy(ExtractField(record, "FiscalYear", NoneCell))
    THEN ExtractField(record, "FiscalYear", NoneCell)
    ELSE Text(Year4(period))

\* output_path.write_text(letter_text): the file is created or replaced
WriteText(files, name, text) == (name :> text) @@ files

\* datetime.utcnow().strftime("%Y-%m-%d %H:%M UTC") at the time of the run
UtcNow == "2023-01-31 09:00 UTC"

\* one pass of the loop over metadata_rows (lines 113-223) on one record:
\*   kind "exception": the record is flagged and skipped
\*   kind "raise":     re.sub in _slugify is handed a float (a NaN name)
\*   kind "letter":    the letter is written and listed in the manifest
ProcessRecord(record, period, index, prior, template) ==
    LET name == ExtractField(record, "ClientName", NoneCell)
        id == ExtractField(record, "ClientID", NoneCell)
        fy == FiscalYearOf(record, period)
        codes == ExtractServiceCodes(record)
        missing == MissingFields(name, id, fy, codes)
        invalid == InvalidCodes(codes, index)
    IN  IF missing # <<>>
        THEN [kind |-> "exception",
              messages |-> <<<<"Record missing required fields", missing>>>>,
              exception |-> [client_id |-> IF Truthy(id) THEN id ELSE Text(""),
                             reason |-> <<"Record missing required fields", missing>>]]
        ELSE IF invalid # <<>>
        THEN [kind |-> "exception",
              messages |-> <<<<"Service line validation failed", invalid>>>>,
              exception |-> [client_id |-> id,
                             reason |-> <<"Service line validation failed", invalid>>]]
        ELSE IF name.t # "text"
        THEN [kind |-> "raise"]
        ELSE LET located == LocatePriorLetter(prior, name, fy)
                 base == BaseOf(prior, located, template)
                 path == LetterName(Slugify(name.s), CellStr(fy))
             IN [kind |-> "letter",
                 messages |-> IF base.notFound
                              THEN <<<<"Prior year letter not found", <<name.s, CellStr(fy)>>>>>>
                              ELSE <<>>,
                 rolled |-> base.rolled,
                 path |-> path,
                 text |-> [base |-> base.text,
                           text |-> LetterText(base.text, name, id, fy,
                                               ServiceDetails(codes, index),
                                               UtcNow)],
                 entry |-> [client_id |-> id, client_name |-> name, fiscal_year |-> fy,
                            service_lines |-> codes, output_path |-> path,
                            source |-> base.source]]

\* read_excel + _as_records on a frame: an empty cell is NaN; the .json and
\* .csv loaders and the CSV fallback keep it as ""
LoadRecords(frames, rows) ==
    ListOf([i \in 1..Len(rows) |->
        DictOf([k \in DOMAIN rows[i] |->
            IF frames /\ rows[i][k] = Text("") THEN NaN ELSE rows[i][k]])])

\* ---- the inputs of the model ----
ClientRecord(name, id, fy, sl) ==
    [ClientName |-> Text(name), ClientID |-> Text(id), FiscalYear |-> Text(fy),
     ServiceLines |-> Text(sl)]

\* the client records of the model.  A sheet read into a frame holds the
\* fiscal year in every row (a column with a gap would be read as floats).
ClientPool(frames) ==
    {ClientRecord("Acme Inc", "C1", "2024", "TAX"),
     ClientRecord("Acme, Inc.", "C3", "2024", "tax; TAX; AUD"),
     ClientRecord("Beta LLC", "C2", "2023", "TAX"),
     ClientRecord("", "C4", "2024", "TAX"),
     ClientRecord("Beta LLC", "", "2024", "TAX"),
     ClientRecord("Beta LLC", "C7", "2024", ""),
     ClientRecord("Beta LLC", "C8", "2024", "ZZZ"),
     ClientRecord("Beta LLC", "C9", "2024", "ADV")}
    \cup (IF frames THEN {} ELSE {ClientRecord("Beta LLC", "C6", "", "TAX")})

NoRecords == [exists |-> FALSE, rows |-> <<>>]

\* the service-line reference: TAX and AUD carry a rate, ADV has none
ServiceLineRows ==
    <<[Code |-> Text("TAX"), Rate |-> Text("250")],
      [Code |-> Text("aud"), Rate |-> Text("300")],
      [Code |-> Text("ADV"), Rate |-> Text("")]>>

NoTemplate == [exists |-> FALSE, text |-> <<>>]

\* the templates of the model: one with every merge field, the fiscal year
\* written as FY{{FiscalYear}} and a field the step does not know; one with
\* the client name twice, an unknown field, no summary and no fiscal year
TemplateTexts ==
    {<<Lit("Dear"), Placeholder("ClientName"), Placeholder("ClientID"), Lit("FY"),
       Placeholder("FiscalYear"), Placeholder("ServiceSummary"),
       Placeholder("GeneratedOn"), Placeholder("Partner")>>,
     <<Lit("Dear"), Placeholder("ClientName"), Placeholder("Partner"),
       Placeholder("ClientName")>>}

\* last year's letters as they lie in the prior-letters folder
PriorAcme == <<Lit("Dear"), Value("Acme Inc"), Lit("Fiscal Year:"), FYText("2023")>>
PriorBeta == <<Lit("Dear"), Value("Beta LLC"), Placeholder("Partner"), FYText("2022")>>

NoPrior == [configured |-> FALSE, exists |-> FALSE, files |-> <<>>]

\* the prior-letters folders of the model: not configured, configured but
\* absent, holding last year's letter of Acme Inc (with text, or empty), or
\* holding the FY2022 letter of Beta LLC
PriorChoices ==
    {NoPrior,
     [configured |-> TRUE, exists |-> FALSE, files |-> <<>>],
     [configured |-> TRUE, exists |-> TRUE,
      files |-> (LetterName("Acme_Inc", "2023") :> PriorAcme)],
     [configured |-> TRUE, exists |-> TRUE,
      files |-> (LetterName("Acme_Inc", "2023") :> <<>>)],
     [configured |-> TRUE, exists |-> TRUE,
      files |-> (LetterName("Beta_LLC", "2022") :> PriorBeta)]}

NoManifestFile == [exists |-> FALSE, letters |-> <<>>, exceptions |-> <<>>]

\* the output side of the file system before the run: no letters folder
NoLetters ==
    [dir |-> FALSE, letters |-> <<>>, manifest |-> NoManifestFile, notification |-> 0]

InitLetters ==
    /\ celFrames \in BOOLEAN
    /\ celPeriod \in {Period, ""}
    /\ celMeta \in {NoRecords} \cup
                   {[exists |-> TRUE, rows |-> r] :
                        r \in SeqsUpTo(ClientPool(celFrames), MaxClients)}
    /\ celService \in {NoRecords, [exists |-> TRUE, rows |-> ServiceLineRows]}
    /\ celTemplate \in {NoTemplate} \cup {[exists |-> TRUE, text |-> t] : t \in TemplateTexts}
    /\ celPrior \in PriorChoices
    /\ celRecipients \in {<<>>, <<"manager">>}
    /\ cpc = "idle"
    /\ ci = 0
    /\ metadata_rows = <<>>
    /\ service_index = <<>>
    /\ manifest = <<>>
    /\ exceptions = <<>>
    /\ rolled_forward = 0
    /\ celMessages = <<>>
    /\ celMetrics = NoMetrics
    /\ celResult = NoTbResult
    /\ celOut = NoLetters
    /\ celTrace = <<>>

\* run, lines 65-111: the three inputs are loaded; a missing one ends the run
\* with a failure result; otherwise the letters folder is created
CELStart ==
    /\ cpc = "idle"
    /\ IF ~celMeta.exists
       THEN /\ celResult' = TbReturn(FALSE, <<<<"Client metadata file not found">>>>, NoMetrics)
            /\ celMessages' = <<<<"Client metadata file not found">>>>
            /\ cpc' = "done"
            /\ UNCHANGED <<metadata_rows, service_index, celMetrics, celOut>>
       ELSE IF ~celService.exists
       THEN /\ celResult' = TbReturn(FALSE, <<<<"Service line reference file not found">>>>, NoMetrics)
            /\ celMessages' = <<<<"Service line reference file not found">>>>
            /\ cpc' = "done"
            /\ UNCHANGED <<metadata_rows, service_index, celMetrics, celOut>>
       ELSE \E rows \in {LoadRecords(celFrames, celMeta.rows)} :
            \E index \in {IndexServiceLines(LoadRecords(celFrames, celService.rows))} :
            \E msgs \in {IF rows = <<>>
                         THEN <<<<"Client metadata file contained no records">>>>
                         ELSE <<>>} :
            \E m \in {("clients_processed" :> Len(rows))
                      @@ ("service_lines_available" :> Cardinality(DOMAIN index))} :
               /\ metadata_rows' = rows
               /\ service_index' = index
               /\ celMetrics' = m
               /\ IF ~celTemplate.exists
                  THEN /\ celMessages' = Append(msgs, <<"Template file not found">>)
                       /\ celResult' = TbReturn(FALSE, celMessages', m)
                       /\ cpc' = "done"
                       /\ UNCHANGED celOut
                  ELSE /\ celMessages' = msgs
                       /\ celOut' = [celOut EXCEPT !.dir = TRUE]
                       /\ cpc' = "loop"
                       /\ UNCHANGED celResult
    /\ UNCHANGED <<celFrames, celPeriod, celMeta, celService, celTemplate, celPrior,
                   celRecipients, ci, manifest, exceptions, rolled_forward, celTrace>>
    /\ UNCHANGED notLetters

\* run, lines 113-223: the body of the loop on the next record
CELRecord ==
    /\ cpc = "loop"
    /\ ci < Len(metadata_rows)
    /\ ci' = ci + 1
    /\ \E o \in {ProcessRecord(metadata_rows[ci + 1], celPeriod, service_index,
                               celPrior, celTemplate.text)} :
          /\ celTrace' = Append(celTrace, [rec |-> ci + 1, kind |-> o.kind])
          /\ IF o.kind = "exception"
             THEN /\ celMessages' = celMessages \o o.messages
                  /\ exceptions' = Append(exceptions, o.exception)
                  /\ UNCHANGED <<manifest, rolled_forward, celOut, celResult, cpc>>
             ELSE IF o.kind = "raise"
             THEN /\ celResult' = FxRaise("TypeError")
                  /\ cpc' = "done"
                  /\ UNCHANGED <<celMessages, exceptions, manifest, rolled_forward, celOut>>
             ELSE /\ celMessages' = celMessages \o o.messages
                  /\ rolled_forward' = rolled_forward + o.rolled
                  /\ celOut' = [celOut EXCEPT !.letters = WriteText(@, o.path, o.text)]
                  /\ manifest' = Append(manifest, o.entry)
                  /\ UNCHANGED <<exceptions, celResult, cpc>>
    /\ UNCHANGED <<celFrames, celPeriod, celMeta, celService, celTemplate, celPrior,
                   celRecipients, metadata_rows, service_index, celMetrics>>
    /\ UNCHANGED notLetters

\* ok = len(exceptions) == 0 and bool(manifest)
LetterOk(exc, man) == Len(exc) = 0 /\ man # <<>>

\* run, lines 225-271: the manifest and the notification log are written and
\* the result is returned
CELFinish ==
    /\ cpc = "loop"
    /\ ci = Len(metadata_rows)
    /\ celOut' = [celOut EXCEPT
                    !.manifest = [exists |-> TRUE, letters |-> manifest,
                                  exceptions |-> exceptions],
                    !.notification = IF celRecipients # <<>> THEN 1 + Len(manifest) ELSE 1]
    /\ celMetrics' = ("letters_generated" :> Len(manifest))
                     @@ ("exceptions" :> Len(exceptions))
                     @@ ("rolled_forward_letters" :> rolled_forward)
                     @@ ("notifications_prepared" :> Len(celRecipients) * Len(manifest))
                     @@ celMetrics
    /\ celMessages' = celMessages
                      \o <<<<"Generated engagement letter drafts", Len(manifest)>>>>
                      \o (IF exceptions # <<>>
                          THEN <<<<"Flagged records for Administrator review", Len(exceptions)>>>>
                          ELSE <<>>)
    /\ celResult' = TbReturn(LetterOk(exceptions, manifest), celMessages', celMetrics')
    /\ cpc' = "done"
    /\ UNCHANGED <<celFrames, celPeriod, celMeta, celService, celTemplate, celPrior,
                   celRecipients, ci, metadata_rows, service_index, manifest, exceptions,
                   rolled_forward, celTrace>>
    /\ UNCHANGED notLetters

NextLetters ==
    \/ CELStart
    \/ CELRecord
    \/ CELFinish

(***************************************************************************)
(* The parameters of a step: where plan_io and run read cfg["params"]      *)
(* (runner.py, the body of the loop, and the four plugins).                *)
(***************************************************************************)
StepTypes == {"TBCollector", "FXTranslator", "PDFAssembler", "ClientEngagementLetterDraft"}

\* the parameter names the plugins read
KnownParams(name) ==
    CASE name = "TBCollector" -> {"required_columns", "enforce_balanced"}
      [] name = "FXTranslator" -> {"tolerance", "fx_source"}
      [] name = "PDFAssembler" -> {"include"}
      [] OTHER -> {"client_metadata", "service_lines", "template_path",
                   "prior_letters_folder", "output_folder"}

\* self.cfg.get("params", {})
ParamsOf(cfg) == IF cfg.params THEN cfg.keys ELSE {}

\* plan_io raises: only ClientEngagementLetterDraft.plan_io looks at the
\* parameters (ValueError when one of the three required keys is absent);
\* the other three read folders and naming only
PlanIORaises(name, cfg) ==
    /\ name = "ClientEngagementLetterDraft"
    /\ ~({"client_metadata", "service_lines", "template_path"} \subseteq ParamsOf(cfg))

\* run raises KeyError on its first lines: self.cfg["params"] and the
\* subscripted parameters
RunRaises(name, cfg) ==
    CASE name = "TBCollector" -> ~cfg.params \/ "required_columns" \notin cfg.keys
      [] name = "FXTranslator" -> ~cfg.params
      [] name = "PDFAssembler" -> ~cfg.params \/ "include" \notin cfg.keys
      [] OTHER -> FALSE

InitParams ==
    /\ step_name \in StepTypes
    /\ step_cfg \in {[params |-> FALSE, keys |-> {}]} \cup
                    {[params |-> TRUE, keys |-> k] : k \in SUBSET KnownParams(step_name)}
    /\ spc = "new"
    /\ calls = <<>>
    /\ raisedIn = ""

\* io = step.plan_io()
StepPlanIO ==
    /\ spc = "new"
    /\ calls' = Append(calls, "plan_io")
    /\ IF PlanIORaises(step_name, step_cfg)
       THEN raisedIn' = "plan_io" /\ spc' = "done"
       ELSE raisedIn' = raisedIn /\ spc' = "planned"
    /\ UNCHANGED <<step_name, step_cfg>>
    /\ UNCHANGED notParams

\* step.before(io)
StepBefore ==
    /\ spc = "planned"
    /\ calls' = Append(calls, "before")
    /\ spc' = "ready"
    /\ UNCHANGED <<step_name, step_cfg, raisedIn>>
    /\ UNCHANGED notParams

\* result = step.run(io), as far as its reads of the parameters
StepRun ==
    /\ spc = "ready"
    /\ calls' = Append(calls, "run")
    /\ IF RunRaises(step_name, step_cfg)
       THEN raisedIn' = "run" /\ spc' = "done"
       ELSE raisedIn' = raisedIn /\ spc' = "ran"
    /\ UNCHANGED <<step_name, step_cfg>>
    /\ UNCHANGED notParams

\* step.after(io, result)
StepAfter ==
    /\ spc = "ran"
    /\ calls' = Append(calls, "after")
    /\ spc' = "done"
    /\ UNCHANGED <<step_name, step_cfg, raisedIn>>
    /\ UNCHANGED notParams

NextParams ==
    \/ StepPlanIO
    \/ StepBefore
    \/ StepRun
    \/ StepAfter

(***************************************************************************)
(* PDFAssembler (amplify_automations/plugins/pdf_assembler.py)             *)
(***************************************************************************)
\* the tables the include list of the model can name
SourcePaths == {"tb/Master_TB_202301.xlsx", "fx/FXAdj_202301.xlsx", "tb/Notes_202301.xlsx"}

\* Path(path).with_suffix(".pdf").as_posix()
WithSuffixPdf(path) ==
    CASE path = "tb/Master_TB_202301.xlsx" -> "tb/Master_TB_202301.pdf"
      [] path = "fx/FXAdj_202301.xlsx" -> "fx/FXAdj_202301.pdf"
      [] OTHER -> "tb/Notes_202301.pdf"

\* io.outputs["support"]
SupportPath == "support/Support_202301.pdf"

PdfPaths == SourcePaths \cup {WithSuffixPdf(p) : p \in SourcePaths} \cup {SupportPath}

NoPdfFile == [exists |-> FALSE, data |-> <<>>]

\* rows[:1000]
RowCap == 1000

\* the rows of the tables of the model, each row the values of its cells in
\* column order; the notes table has one row more than the cap
SourceRows(path) ==
    CASE path = "tb/Master_TB_202301.xlsx" -> <<<<1, 2>>, <<3, 4>>>>
      [] path = "fx/FXAdj_202301.xlsx" -> <<<<5, 6>>>>
      [] OTHER -> [i \in 1..(RowCap + 1) |-> <<i>>]

\* the line "\n"
EmptyLine == [sep |-> "", parts |-> <<>>]

\* " | ".join(str(v) for v in row.values()) + "\n": one line of text
JoinValues(row) ==
    IF row = <<>> THEN EmptyLine ELSE [sep |-> " | ", parts |-> row]

\* a plausible slip: no cap on the rows rendered
SimplePdfText_AllRows(rows) ==
    ListOf([i \in 1..Len(rows) |-> JoinValues(rows[i])])

\* the text excel_to_simple_pdf writes: one line per row of rows[:1000]
SimplePdfText(rows) ==
    ListOf([i \in 1..(IF Len(rows) < RowCap THEN Len(rows) ELSE RowCap) |->
                JoinValues(rows[i])])

\* a plausible slip: a source that is not there reads as an empty table
ReadSource_MissingIsEmpty(dsk, path) ==
    [raised |-> FALSE, rows |-> IF dsk[path].exists THEN dsk[path].data ELSE <<>>]

\* read_excel(excel_path): FileNotFoundError when the file is not there
ReadSource(dsk, path) ==
    IF dsk[path].exists
    THEN [raised |-> FALSE, rows |-> dsk[path].data]
    ELSE [raised |-> TRUE, rows |-> <<>>]

\* excel_to_simple_pdf(excel_path, pdf_path): [raised, disk]
ExcelToSimplePdf(dsk, path, out) ==
    IF ReadSource(dsk, path).raised
    THEN [raised |-> TRUE, disk |-> dsk]
    ELSE [raised |-> FALSE,
          disk |-> [dsk EXCEPT ![out] =
                       [exists |-> TRUE,
                        data |-> SimplePdfText(ReadSource(dsk, path).rows)]]]

\* the merge loop: out_f.write(f.read()); out_f.write("\n") for each rendering
RECURSIVE Merged(_, _)
Merged(dsk, ps) ==
    IF ps = <<>> THEN <<>>
    ELSE dsk[Head(ps)].data \o <<EmptyLine>> \o Merged(dsk, Tail(ps))

InitPDF ==
    /\ include \in SeqsUpTo(SourcePaths, MaxInclude)
    /\ \E present \in SUBSET SourcePaths :
       \E stale \in BOOLEAN :
          pdfDisk = [p \in PdfPaths |->
                       IF p \in present THEN [exists |-> TRUE, data |-> SourceRows(p)]
                       ELSE IF p = SupportPath /\ stale
                       THEN [exists |-> TRUE, data |-> <<"an earlier merge">>]
                       ELSE NoPdfFile]
    /\ pdfpc = "loop"
    /\ pdfs = <<>>
    /\ pdfResult = NoTbResult
    /\ pdfDisk0 = pdfDisk

\* run, lines 42-46: the body of the loop on the next entry of include
PDFRender ==
    /\ pdfpc = "loop"
    /\ Len(pdfs) < Len(include)
    /\ \E r \in {ExcelToSimplePdf(pdfDisk, include[Len(pdfs) + 1],
                                  WithSuffixPdf(include[Len(pdfs) + 1]))} :
          IF r.raised
          THEN /\ pdfResult' = FxRaise("FileNotFoundError")
               /\ pdfpc' = "done"
               /\ UNCHANGED <<pdfDisk, pdfs>>
          ELSE /\ pdfDisk' = r.disk
               /\ pdfs' = Append(pdfs, WithSuffixPdf(include[Len(pdfs) + 1]))
               /\ UNCHANGED <<pdfResult, pdfpc>>
    /\ UNCHANGED <<include, pdfDisk0>>
    /\ UNCHANGED notPDF

\* run, lines 48-54: the renderings are merged into the support file
PDFMerge ==
    /\ pdfpc = "loop"
    /\ Len(pdfs) = Len(include)
    /\ pdfDisk' = [pdfDisk EXCEPT ![SupportPath] =
                      [exists |-> TRUE, data |-> Merged(pdfDisk, pdfs)]]
    /\ pdfResult' = TbReturn(TRUE, <<<<"Merged PDFs", Len(pdfs)>>>>,
                             ("source_pdfs" :> Len(pdfs)))
    /\ pdfpc' = "done"
    /\ UNCHANGED <<include, pdfs, pdfDisk0>>
    /\ UNCHANGED notPDF

NextPDF ==
    \/ PDFRender
    \/ PDFMerge

(***************************************************************************)
(* The tabular codec: write_excel then read_excel (core/io_utils.py)       *)
(***************************************************************************)
\* None, "" and NaN: the values that leave a cell or a field empty
EmptyValued(cell) == cell = NoneCell \/ cell = Text("") \/ cell = NaN

\* a plausible slip: rows without any value are skipped on reading
ReadExcel_SkipBlankRows(hp, file) ==
    [cols |-> file.cols,
     rows |-> SelectSeq(file.rows,
                        LAMBDA r : \E c \in DOMAIN r : ~EmptyValued(r[c]))]

\* read_excel(path) on a file write_excel wrote.
\*   pandas: a frame; an empty cell is NaN, the other cells keep their type
\*   CSV:    DictReader; every field is text, None was written as ""; a file
\*           whose header line is empty yields no row (blank lines are skipped)
ReadExcel(hp, file) ==
    IF file.cols = <<>>
    THEN [cols |-> <<>>, rows |-> <<>>]
    ELSE [cols |-> file.cols,
          rows |-> ListOf([i \in 1..Len(file.rows) |->
                      DictOf([c \in DOMAIN file.rows[i] |->
                          IF hp
                          THEN (IF EmptyValued(file.rows[i][c]) THEN NaN
                                ELSE file.rows[i][c])
                          ELSE (IF file.rows[i][c] = NoneCell THEN Text("")
                                ELSE file.rows[i][c])])])]

\* the values of the cells of the model
CodecValues == {Num(1), Text("x"), Text(""), NoneCell, NaN}

\* the key lists of the model: no key, one key, two keys
CodecColumns == {<<>>, <<"a">>, <<"a", "b">>}

InitCodec ==
    /\ cdPandas \in BOOLEAN
    /\ cdCols \in CodecColumns
    /\ cdRows \in UNION {[1..k -> [Range(cdCols) -> CodecValues]] : k \in 1..MaxTableRows}
    /\ cdFile = NoFile
    /\ cdBack = [cols |-> <<>>, rows |-> <<>>]
    /\ cdpc = "new"

\* write_excel(rows, path)
CodecWrite ==
    /\ cdpc = "new"
    /\ cdFile' = WriteRows(cdPandas, cdRows, cdCols)
    /\ cdpc' = "written"
    /\ UNCHANGED <<cdPandas, cdCols, cdRows, cdBack>>
    /\ UNCHANGED notCodec

\* read_excel(path)
CodecRead ==
    /\ cdpc = "written"
    /\ cdBack' = ReadExcel(cdPandas, cdFile)
    /\ cdpc' = "read"
    /\ UNCHANGED <<cdPandas, cdCols, cdRows, cdFile>>
    /\ UNCHANGED notCodec

NextCodec ==
    \/ CodecWrite
    \/ CodecRead

(***************************************************************************)
(* The tutorial catalogue (amplify_automations/core/tutorial_catalog.py)   *)
(***************************************************************************)
\* the identifiers uuid4 gives, all in canonical form, in the order in which
\* file names made of them sort
IdOrder == <<"1a", "2b", "3c", "4d">>

IdPool == Range(IdOrder)

\* DEFAULT_CATALOG_DIRECTORY
DefaultCatalogDirectory == "notebooks"

\* catalog_path is None; no catalogue found for the step
NoPath == [dir |-> "", stem |-> ""]

\* the file <stem>.json of the notebooks directory
InNotebooks(stem) == [dir |-> DefaultCatalogDirectory, stem |-> stem]

\* the catalogue path a caller passes: a file of the notebooks directory
\* under a name of its own
ExplicitPaths == {InNotebooks("legacy_name")}

CatalogPaths == ExplicitPaths \cup {InNotebooks(i) : i \in IdPool}

\* sorted(directory.glob("*.json")): hexadecimal names sort before "legacy_name"
GlobOrder == IdOrder \o <<"legacy_name">>

AbsentCatalog == [exists |-> FALSE, data |-> <<>>]

EmptyCatalog == [exists |-> TRUE, data |-> <<>>]

\* _load_catalog: a missing file reads as the empty list
LoadCatalog(files, path) == IF files[path].exists THEN files[path].data ELSE <<>>

\* does the catalogue at path hold an entry of that name
HoldsStep(files, path, name) ==
    /\ files[path].exists
    /\ \E k \in 1..Len(files[path].data) : files[path].data[k].name = name

\* _discover_catalog_for_step: the first file of the notebooks directory, in
\* sorted order, that holds an entry of that name
DiscoverCatalogForStep(files, name) ==
    The({ IF found = <<>>
          THEN [path |-> NoPath, data |-> <<>>]
          ELSE [path |-> InNotebooks(Head(found)),
                data |-> LoadCatalog(files, InNotebooks(Head(found)))]
          : found \in {SelectSeq(GlobOrder,
                         LAMBDA s : HoldsStep(files, InNotebooks(s), name))} })

\* _TRAILING_DESCRIPTOR_KEYWORDS
TrailingDescriptorKeywords ==
    {"mock", "sandbox", "integration", "automation", "workflow", "templating"}

\* str.casefold on one word
Casefold(w) ==
    CASE w = "Mock" -> "mock"
      [] w = "Workflow" -> "workflow"
      [] w = "Tool" -> "tool"
      [] w = "A" -> "a"
      [] w = "B" -> "b"
      [] w = "API" -> "api"
      [] OTHER -> w

\* where a keyword starts a word after the first (the marker is " " + keyword)
DescriptorAt(words) ==
    {i \in 2..Len(words) : Casefold(words[i]) \in TrailingDescriptorKeywords}

\* _simplify_tool_name; a tool name is the sequence of its words, which is
\* what " ".join(tool.split()) keeps of it
SimplifyToolName(words) ==
    IF DescriptorAt(words) = {}
    THEN words
    ELSE SubSeq(words, 1,
                (CHOOSE i \in DescriptorAt(words) :
                    \A j \in DescriptorAt(words) : i <= j) - 1)

RECURSIVE NormaliseToolsFrom(_, _)
NormaliseToolsFrom(tools, normalised) ==
    IF tools = <<>>
    THEN normalised
    ELSE NormaliseToolsFrom(Tail(tools),
            IF /\ SimplifyToolName(Head(tools)) # <<>>
               /\ SimplifyToolName(Head(tools)) \notin Range(normalised)
            THEN Append(normalised, SimplifyToolName(Head(tools)))
            ELSE normalised)

\* _normalise_tools
NormaliseTools(tools) == NormaliseToolsFrom(tools, <<>>)

\* _normalise_tutorial_reference; a path is the sequence of its parts
NormaliseTutorialReference(parts) ==
    IF parts # <<>> /\ Head(parts) = "notebooks" THEN Tail(parts) ELSE parts

\* register_tutorial, first loop: the identifiers found in the catalogue
UsedIds(data) ==
    {data[k].id : k \in 1..Len(data)}
    \cup UNION {{data[k].toolsets[j].id : j \in 1..Len(data[k].toolsets)}
                : k \in 1..Len(data)}

\* register_tutorial, first loop: every stored tutorial reference normalised
NormaliseStored(data) ==
    [k \in 1..Len(data) |->
        [data[k] EXCEPT !.toolsets =
            [j \in 1..Len(data[k].toolsets) |->
                [data[k].toolsets[j] EXCEPT
                    !.tutorial = NormaliseTutorialReference(@)]]]] \o <<>>

\* _generate_unique_id: uuid4 is drawn again until it is not in used
GenerateUniqueId_AnyCandidate(used) == IdPool

GenerateUniqueId(used) == IdPool \ used

\* the position of the first entry of that name, 0 when there is none
StepIndex(data, name) ==
    IF \E k \in 1..Len(data) : data[k].name = name
    THEN CHOOSE k \in 1..Len(data) :
            /\ data[k].name = name
            /\ \A j \in 1..(k - 1) : data[j].name # name
    ELSE 0

\* the position of the first toolset of that tutorial, 0 when there is none
ToolsetIndex_NeverFound(toolsets, tutorial) == 0

ToolsetIndex(toolsets, tutorial) ==
    IF \E k \in 1..Len(toolsets) : toolsets[k].tutorial = tutorial
    THEN CHOOSE k \in 1..Len(toolsets) :
            /\ toolsets[k].tutorial = tutorial
            /\ \A j \in 1..(k - 1) : toolsets[j].tutorial # tutorial
    ELSE 0

\* the identifier of the step entry: kept when the entry exists, new otherwise
StepIds(data, name, used) ==
    IF StepIndex(data, name) = 0
    THEN GenerateUniqueId(used)
    ELSE {data[StepIndex(data, name)].id}

\* the toolsets of the step entry before the toolset is looked up
ToolsetsOf(data, name) ==
    IF StepIndex(data, name) = 0 THEN <<>> ELSE data[StepIndex(data, name)].toolsets

\* the identifier of the toolset: kept when it exists, new otherwise
ToolsetIds(data, name, tutorial, used) ==
    IF ToolsetIndex(ToolsetsOf(data, name), tutorial) = 0
    THEN GenerateUniqueId(used)
    ELSE {ToolsetsOf(data, name)[ToolsetIndex(ToolsetsOf(data, name), tutorial)].id}

\* the toolset of the call created or its tools replaced
WithToolset(toolsets, tutorial, tools, tid) ==
    IF ToolsetIndex(toolsets, tutorial) = 0
    THEN Append(toolsets, [id |-> tid, tutorial |-> tutorial, tools |-> tools])
    ELSE [toolsets EXCEPT ![ToolsetIndex(toolsets, tutorial)].tools = tools]

\* the step entry created or its description replaced
WithStep(data, name, description, sid) ==
    IF StepIndex(data, name) = 0
    THEN Append(data, [id |-> sid, name |-> name, description |-> description,
                       toolsets |-> <<>>])
    ELSE [data EXCEPT ![StepIndex(data, name)].description = description]

\* the step names and the tutorial references in the order str sorts them
StepNameOrder == <<"ExampleStep", "OtherStep">>

TutorialOrder == <<<<"example.ipynb">>, <<"example_alt.ipynb">>>>

RECURSIVE SortToolsets(_, _)
SortToolsets(toolsets, order) ==
    IF order = <<>>
    THEN <<>>
    ELSE SelectSeq(toolsets, LAMBDA t : t.tutorial = Head(order))
         \o SortToolsets(toolsets, Tail(order))

RECURSIVE SortEntries(_, _)
SortEntries(data, order) ==
    IF order = <<>>
    THEN <<>>
    ELSE SelectSeq(data, LAMBDA e : e.name = Head(order))
         \o SortEntries(data, Tail(order))

\* register_tutorial, from the lookup of the step entry to the two sorts
Upsert(data, call, sid, tid) ==
    The({ SortEntries(
            [k \in 1..Len(stepped) |->
                [stepped[k] EXCEPT !.toolsets =
                    SortToolsets(
                        IF k = StepIndex(stepped, call.step_name)
                        THEN WithToolset(@,
                                NormaliseTutorialReference(call.tutorial_path),
                                NormaliseTools(call.tools), tid)
                        ELSE @,
                        TutorialOrder)]] \o <<>>,
            StepNameOrder)
          : stepped \in {WithStep(data, call.step_name, call.description, sid)} })

\* final_path
FinalPath(call, path, sid) ==
    IF call.catalog_path = NoPath THEN InNotebooks(sid) ELSE path

\* the files after the catalogue is written and, when it moved, the old file
\* is unlinked
WriteCatalog(files, call, path, final, data) ==
    [p \in CatalogPaths |->
        IF p = final
        THEN [exists |-> TRUE, data |-> data]
        ELSE IF p = path /\ final # path /\ call.catalog_path = NoPath
             THEN AbsentCatalog
             ELSE files[p]]

\* the catalogue a call works on: the one at catalog_path, or the one found
\* for the step in the notebooks directory
Located(files, call) ==
    IF call.catalog_path # NoPath
    THEN [path |-> call.catalog_path,
          data |-> LoadCatalog(files, call.catalog_path)]
    ELSE DiscoverCatalogForStep(files, call.step_name)

\* what the callers register: a notebook, then the same notebook again under
\* its bare name with a new description and new tools, and a second notebook
Registrations ==
    {[description |-> "Old description",
      tutorial_path |-> <<"notebooks", "example.ipynb">>,
      tools |-> <<<<"Tool", "A">>, <<"Tool", "B">>>>],
     [description |-> "Refreshed description",
      tutorial_path |-> <<"example.ipynb">>,
      tools |-> <<<<"Tool", "B", "Mock", "API">>, <<"Tool", "A">>,
                  <<"Tool", "B">>, <<>>>>],
     [description |-> "Old description",
      tutorial_path |-> <<"notebooks", "example_alt.ipynb">>,
      tools |-> <<<<"Tool", "B">>>>]}

\* the identifier a call found for its step (its toolset), "" when it found none
FoundStepId(data, name) ==
    IF StepIndex(data, name) = 0 THEN "" ELSE data[StepIndex(data, name)].id

FoundToolsetId(data, name, tutorial) ==
    IF ToolsetIndex(ToolsetsOf(data, name), tutorial) = 0
    THEN ""
    ELSE ToolsetsOf(data, name)[ToolsetIndex(ToolsetsOf(data, name), tutorial)].id

NoCall ==
    [step_name |-> "", description |-> "", tutorial_path |-> <<>>,
     tools |-> <<>>, catalog_path |-> NoPath, path |-> NoPath, final |-> NoPath,
     found_step |-> "", found_toolset |-> "", found_ids |-> {}]

\* a catalogue left by an earlier release under a name of its own, its
\* tutorial reference still carrying the notebooks prefix
LegacyCatalog ==
    [exists |-> TRUE,
     data |-> <<[id |-> IdOrder[1], name |-> "ExampleStep",
                 description |-> "Old description",
                 toolsets |-> <<[id |-> IdOrder[2],
                                 tutorial |-> <<"notebooks", "example.ipynb">>,
                                 tools |-> <<<<"Tool", "A">>>>]>>]>>]

NoCatalogs == [p \in CatalogPaths |-> AbsentCatalog]

\* what a call without catalog_path and then a call with catalog_path, both
\* for ExampleStep, leave in the notebooks directory
TwoCatalogs ==
    [NoCatalogs EXCEPT
        ![InNotebooks("legacy_name")] = LegacyCatalog,
        ![InNotebooks(IdOrder[3])] =
            [exists |-> TRUE,
             data |-> <<[id |-> IdOrder[3], name |-> "ExampleStep",
                         description |-> "Old description",
                         toolsets |-> <<[id |-> IdOrder[4],
                                         tutorial |-> <<"example.ipynb">>,
                                         tools |-> <<<<"Tool", "A">>>>]>>]>>]]

InitCatalog ==
    /\ catFiles \in {NoCatalogs,
                     [NoCatalogs EXCEPT ![InNotebooks("legacy_name")] = EmptyCatalog],
                     [NoCatalogs EXCEPT ![InNotebooks("legacy_name")] = LegacyCatalog],
                     TwoCatalogs}
    /\ catCall = NoCall
    /\ catCalls = 0

\* one call of register_tutorial
RegisterTutorial ==
    /\ catCalls < MaxCalls
    /\ \E name \in Range(StepNameOrder), reg \in Registrations,
          catalog_path \in ExplicitPaths \cup {NoPath} :
        \E call \in {[step_name |-> name, description |-> reg.description,
                      tutorial_path |-> reg.tutorial_path, tools |-> reg.tools,
                      catalog_path |-> catalog_path]} :
        \E located \in {Located(catFiles, call)} :
        \E data \in {NormaliseStored(located.data)} :
        \E sid \in StepIds(data, name, UsedIds(data)) :
        \E tid \in ToolsetIds(data, name,
                              NormaliseTutorialReference(call.tutorial_path),
                              UsedIds(data) \cup {sid}) :
        \E final \in {FinalPath(call, located.path, sid)} :
            /\ catFiles' = WriteCatalog(catFiles, call, located.path, final,
                                        Upsert(data, call, sid, tid))
            /\ catCall' = [step_name |-> name, description |-> reg.description,
                           tutorial_path |-> reg.tutorial_path,
                           tools |-> reg.tools,
                           catalog_path |-> catalog_path,
                           path |-> located.path, final |-> final,
                           found_step |-> FoundStepId(data, name),
                           found_toolset |->
                               FoundToolsetId(data, name,
                                   NormaliseTutorialReference(reg.tutorial_path)),
                           found_ids |-> UsedIds(data)]
            /\ catCalls' = catCalls + 1
    /\ UNCHANGED notCatalog

NextCatalog == RegisterTutorial

(***************************************************************************)
(* Specifications.  Each leaves the other component where Init parks it.   *)
(***************************************************************************)
ParkedRunner ==
    /\ pipeline = <<>>
    /\ rpc = "parked"
    /\ idx = 0
    /\ io = NoIO
    /\ result = NoResult
    /\ logs = <<>>
    /\ retval = [delivered |-> FALSE, logs |-> <<>>]
    /\ disk = [p \in Paths |-> Absent]
    /\ hist = <<>>

ParkedTB ==
    /\ hasPandas = FALSE
    /\ reqCols = <<>>
    /\ enforce = FALSE
    /\ masterName = ""
    /\ folder = <<>>
    /\ master = NoFile
    /\ tpc = "parked"
    /\ matched = <<>>
    /\ fi = 0
    /\ allRows = <<>>
    /\ metrics = <<>>
    /\ messages = <<>>
    /\ tbResult = NoTbResult
    /\ readLog = <<>>
    /\ master0 = master
    /\ outcomes = <<>>

ParkedFX ==
    /\ fxPandas = FALSE
    /\ fxMaster = NoFile
    /\ fxRates = NoFile
    /\ fxTol = [set |-> FALSE, v |-> 0]
    /\ fxpc = "parked"
    /\ fxResult = NoTbResult
    /\ fxOut = NoOut
    /\ fxOut0 = NoOut
    /\ fxOutcomes = <<>>

ParkedLetters ==
    /\ celFrames = FALSE
    /\ celPeriod = Period
    /\ celMeta = NoRecords
    /\ celService = NoRecords
    /\ celTemplate = NoTemplate
    /\ celPrior = NoPrior
    /\ celRecipients = <<>>
    /\ cpc = "parked"
    /\ ci = 0
    /\ metadata_rows = <<>>
    /\ service_index = <<>>
    /\ manifest = <<>>
    /\ exceptions = <<>>
    /\ rolled_forward = 0
    /\ celMessages = <<>>
    /\ celMetrics = NoMetrics
    /\ celResult = NoTbResult
    /\ celOut = NoLetters
    /\ celTrace = <<>>

ParkedParams ==
    /\ step_name = "TBCollector"
    /\ step_cfg = [params |-> FALSE, keys |-> {}]
    /\ spc = "parked"
    /\ calls = <<>>
    /\ raisedIn = ""

ParkedPDF ==
    /\ include = <<>>
    /\ pdfDisk = [p \in PdfPaths |-> NoPdfFile]
    /\ pdfpc = "parked"
    /\ pdfs = <<>>
    /\ pdfResult = NoTbResult
    /\ pdfDisk0 = pdfDisk

ParkedCodec ==
    /\ cdPandas = FALSE
    /\ cdCols = <<>>
    /\ cdRows = <<>>
    /\ cdFile = NoFile
    /\ cdBack = [cols |-> <<>>, rows |-> <<>>]
    /\ cdpc = "parked"

ParkedCatalog ==
    /\ catFiles = NoCatalogs
    /\ catCall = NoCall
    /\ catCalls = MaxCalls + 1

\* the components a specification leaves parked
ParkedButRunner ==
    ParkedTB /\ ParkedFX /\ ParkedLetters /\ ParkedParams /\ ParkedPDF /\ ParkedCodec
    /\ ParkedCatalog
ParkedButTB ==
    ParkedRunner /\ ParkedFX /\ ParkedLetters /\ ParkedParams /\ ParkedPDF /\ ParkedCodec
    /\ ParkedCatalog
ParkedButFX ==
    ParkedRunner /\ ParkedTB /\ ParkedLetters /\ ParkedParams /\ ParkedPDF /\ ParkedCodec
    /\ ParkedCatalog
ParkedButLetters ==
    ParkedRunner /\ ParkedTB /\ ParkedFX /\ ParkedParams /\ ParkedPDF /\ ParkedCodec
    /\ ParkedCatalog
ParkedButParams ==
    ParkedRunner /\ ParkedTB /\ ParkedFX /\ ParkedLetters /\ ParkedPDF /\ ParkedCodec
    /\ ParkedCatalog
ParkedButPDF ==
    ParkedRunner /\ ParkedTB /\ ParkedFX /\ ParkedLetters /\ ParkedParams /\ ParkedCodec
    /\ ParkedCatalog

ParkedButCodec ==
    ParkedRunner /\ ParkedTB /\ ParkedFX /\ ParkedLetters /\ ParkedParams /\ ParkedPDF
    /\ ParkedCatalog

ParkedButCatalog ==
    ParkedRunner /\ ParkedTB /\ ParkedFX /\ ParkedLetters /\ ParkedParams /\ ParkedPDF
    /\ ParkedCodec

\* run_pipeline alone
InitPipelineOnly == InitRunner /\ ParkedButRunner

SpecRunner == InitPipelineOnly /\ [][NextRunner]_vars

\* TBCollector alone
InitCollectorOnly == InitTB /\ ParkedButTB

SpecTB == InitCollectorOnly /\ [][NextTB]_vars

\* FXTranslator alone
InitTranslatorOnly == InitFX /\ ParkedButFX

SpecFX == InitTranslatorOnly /\ [][NextFX]_vars

\* ClientEngagementLetterDraft alone
InitLettersOnly == InitLetters /\ ParkedButLetters

SpecLetters == InitLettersOnly /\ [][NextLetters]_vars

\* one step of the pipeline, as far as its parameters
InitParamsOnly == InitParams /\ ParkedButParams

SpecParams == InitParamsOnly /\ [][NextParams]_vars

\* PDFAssembler alone
InitAssemblerOnly == InitPDF /\ ParkedButPDF

SpecPDF == InitAssemblerOnly /\ [][NextPDF]_vars

\* register_tutorial alone
InitCatalogOnly == InitCatalog /\ ParkedButCatalog

SpecCatalog == InitCatalogOnly /\ [][NextCatalog]_vars

\* the tabular codec alone
InitCodecOnly == InitCodec /\ ParkedButCodec

SpecCodec == InitCodecOnly /\ [][NextCodec]_vars

(***************************************************************************)
(* Claims about run_pipeline (checked under SpecRunner).                   *)
(***************************************************************************)
\* the order of the hooks for one step
Phases == <<"plan_io", "before", "run", "after", "log">>

\* a run event that returned a ValidationResult (it did not raise)
Returned(e) == e.ev = "run" /\ e.res # NoResult

\* the results the steps' runs returned, in order
RunResults ==
    LET evs == SelectSeq(hist, Returned)
    IN  [k \in 1..Len(evs) |-> evs[k].res]

\* C1 (as claimed): once a step's run has returned ok=False the runner halts:
\* the loop never leaves that step (no later step is instantiated, planned or
\* run) and the returned list has as many logs as the failing step's position.
C1_HaltsOnFirstFailure ==
    \A k \in 1..Len(hist) :
        (Returned(hist[k]) /\ ~hist[k].res.ok) =>
            /\ idx = hist[k].i
            /\ retval.delivered => Len(retval.logs) = hist[k].i

\* C2: the hooks the runner has invoked form a prefix of
\* plan_io(1) before(1) run(1) after(1) log(1) plan_io(2) ...: each once per
\* step, in that order, step i+1 planned only after step i was logged; after
\* and the log receive the very result run returned, ok or not.
C2_HookOrder ==
    /\ \A k \in 1..Len(hist) :
          /\ hist[k].ev = Phases[((k - 1) % 5) + 1]
          /\ hist[k].i = ((k - 1) \div 5) + 1
          /\ hist[k].ev \in {"after", "log"} => hist[k].res = hist[k - 1].res
          /\ hist[k].ev = "after" => Returned(hist[k - 1])
    /\ Len(logs) = Len(SelectSeq(hist, LAMBDA e : e.ev = "log"))

\* C2 witness: two steps went through all five hooks, the first with ok=False
C2_Witness ==
    /\ Len(hist) = 10
    /\ ~hist[3].res.ok
    /\ hist[4].ev = "after"
    /\ hist[10].ev = "log"

\* C3: there is one StepLog per executed step, in pipeline order, carrying
\* the configured step name and the period; its status is "ok" exactly when
\* the step's result was ok and "error" otherwise; messages and metrics are
\* the result's; the caller receives exactly these logs.
C3_OneLogPerStep ==
    /\ rpc \in {"loop", "returned"} => Len(logs) = Len(RunResults)
    /\ Len(logs) <= Len(RunResults)
    /\ \A k \in 1..Len(logs) :
          /\ logs[k].step_name = pipeline[k]
          /\ logs[k].period = Period
          /\ logs[k].status = (IF RunResults[k].ok THEN "ok" ELSE "error")
          /\ logs[k].messages = RunResults[k].messages
          /\ logs[k].metrics = RunResults[k].metrics
    /\ retval.delivered => retval.logs = logs

\* C3 witness: the caller received two logs, an error and an ok one
C3_Witness ==
    /\ retval.delivered
    /\ Len(retval.logs) = 2
    /\ retval.logs[1].status = "error"
    /\ retval.logs[2].status = "ok"

(***************************************************************************)
(* Claims about TBCollector (checked under SpecTB).                        *)
(***************************************************************************)
\* run has come to its end (returned or raised) and the caller has not yet
\* started another run
RunOver == tpc = "done"

\* the last message of the run
LastMessage == messages[Len(messages)]

\* the number of data rows of the first k matched files
RowsOfFirst(k) == SumSeq([i \in 1..k |-> Len(matched[i].rows)])

\* the file holds Debit and Credit columns whose totals differ once the
\* difference is rounded to 2 decimals
TotalsDiffer(f) ==
    /\ {"Debit", "Credit"} \subseteq Range(f.cols)
    /\ Round2(SumSeq([i \in 1..Len(f.rows) |-> ToNumeric(f.rows[i]["Debit"])])
              - SumSeq([i \in 1..Len(f.rows) |-> ToNumeric(f.rows[i]["Credit"])])) # 0

\* C4 (as claimed): with enforce_balanced, ANY matched file whose debit and
\* credit totals differ makes run return ok=False with a message naming that
\* file, and the master is left without rows of this run.
C4_AnyUnbalancedFileNamed ==
    (RunOver /\ enforce) =>
        \A i \in 1..Len(matched) :
            TotalsDiffer(matched[i]) =>
                /\ tbResult.returned /\ ~tbResult.ok
                /\ \E k \in 1..Len(messages) : messages[k][1] = matched[i].name
                /\ master = master0

\* C4 (amended): with enforce_balanced, a matched file whose debit and credit
\* totals differ makes run return ok=False and the master stays as the run
\* found it; the file is never merged, and the last message names it when
\* every matched file before it was accepted (an unbalanced file behind an
\* earlier failing file is neither read nor named).
C4_FirstUnbalancedFileNamed ==
    (RunOver /\ enforce) =>
        \A i \in 1..Len(matched) :
            TotalsDiffer(matched[i]) =>
                /\ tbResult.returned /\ ~tbResult.ok
                /\ master = master0
                /\ fi < i
                /\ (fi = i - 1) => LastMessage[1] = matched[i].name

\* C4 witness: the second file is unbalanced, the first was accepted, the run
\* failed naming the second and an older master is still in place
C4_Witness ==
    /\ RunOver /\ enforce
    /\ Len(matched) = 2 /\ fi = 1
    /\ TotalsDiffer(matched[2])
    /\ LastMessage = <<matched[2].name, "debits != credits">>
    /\ master.exists /\ master = master0

\* C5 (as claimed): with no matching file run returns ok=True, files=0 and
\* rows=0, and the master holds exactly required_columns as its header row
\* and no data row, on both table backends.
C5_EmptyFolderWritesHeader ==
    (RunOver /\ matched = <<>>) =>
        /\ tbResult.returned /\ tbResult.ok
        /\ tbResult.metrics["files"] = 0 /\ tbResult.metrics["rows"] = 0
        /\ master.exists
        /\ master.cols = reqCols
        /\ master.rows = <<>>

\* a message that reports a failing file
IsFailure(msg) == msg[2] \in {"unresolved columns", "missing", "debits != credits"}

\* C6: TBCollector fails fast.  As soon as a failure message exists the run
\* is over with ok=False; then the files read are the accepted ones and the
\* failing one, no later file was read, the master is as the run found it,
\* and files/rows count exactly the files accepted before the failing one.
C6_FailFast ==
    /\ (\E k \in 1..Len(messages) : IsFailure(messages[k])) =>
          /\ tpc \in {"done", "idle"}
          /\ tbResult.returned /\ ~tbResult.ok
    /\ (RunOver /\ tbResult.returned /\ ~tbResult.ok) =>
          /\ fi < Len(matched)
          /\ readLog = [i \in 1..(fi + 1) |-> matched[i].name]
          /\ IsFailure(LastMessage) /\ LastMessage[1] = matched[fi + 1].name
          /\ master = master0
          /\ tbResult.metrics["files"] = fi
          /\ tbResult.metrics["rows"] = RowsOfFirst(fi)
          /\ Len(allRows) = RowsOfFirst(fi)

\* C6 witness: two files matched, the first failed, the second was never
\* read, nothing was counted and an older master is untouched
C6_Witness ==
    /\ RunOver /\ tbResult.returned /\ ~tbResult.ok
    /\ Len(matched) = 2 /\ fi = 0
    /\ readLog = <<matched[1].name>>
    /\ tbResult.metrics["files"] = 0
    /\ master.exists /\ master = master0

\* the columns a file has after alias resolution and normalisation: with
\* pandas the renamed columns and every column of the TB schema; without it
\* the keys of the normalised first row (the header for a file without rows)
ColumnsAfter(f) ==
    IF hasPandas
    THEN {RenamedTo(f.cols, c) : c \in Range(f.cols)} \cup Range(SchemaTB)
    ELSE IF f.rows = <<>> THEN Range(f.cols)
         ELSE DOMAIN NormaliseRow(f.rows[1], f.name)

\* the file still lacks a column of required_columns
LacksRequired(f) == ~(Range(reqCols) \subseteq ColumnsAfter(f))

\* a message that reports missing columns
IsMissingColumns(msg) == msg[2] \in {"unresolved columns", "missing"}

\* C7 (as claimed): ANY matched file that still lacks a required column makes
\* run return ok=False with an unresolved/missing-columns message naming that
\* file, and the file is not merged.
C7_AnyFileLackingColumnNamed ==
    RunOver =>
        \A i \in 1..Len(matched) :
            LacksRequired(matched[i]) =>
                /\ tbResult.returned /\ ~tbResult.ok
                /\ fi < i
                /\ \E k \in 1..Len(messages) :
                      IsMissingColumns(messages[k]) /\ messages[k][1] = matched[i].name

\* C7 (amended): a matched file that still lacks a required column makes run
\* return ok=False and is never merged into the master; the last message is
\* the unresolved/missing-columns message naming it when every matched file
\* before it was accepted (a file behind an earlier failing file is neither
\* read nor named); the message lists the required columns the file lacks.
C7_FirstFileLackingColumnNamed ==
    RunOver =>
        \A i \in 1..Len(matched) :
            LacksRequired(matched[i]) =>
                /\ tbResult.returned /\ ~tbResult.ok
                /\ fi < i
                /\ master = master0
                /\ (fi = i - 1) =>
                      /\ IsMissingColumns(LastMessage)
                      /\ LastMessage[1] = matched[i].name
                      /\ Range(reqCols) \ ColumnsAfter(matched[i]) \subseteq Range(LastMessage[3])
                      /\ Range(LastMessage[3]) \subseteq Range(reqCols)

\* C7 witness: with pandas, the first file was accepted after its aliases
\* were resolved and the second lacks a required column and is named
C7_Witness ==
    /\ RunOver /\ hasPandas
    /\ Len(matched) = 2 /\ fi = 1
    /\ tbResult.metrics["aliased_columns"] > 0
    /\ LacksRequired(matched[2])
    /\ LastMessage = <<matched[2].name, "unresolved columns", <<"Memo">>>>

\* max(n, 0)
PositivePart(n) == IF n > 0 THEN n ELSE 0

\* C8 (as claimed): every row collected from a file with an Amount column
\* and no Debit/Credit column has Debit = Amount if Amount > 0 else 0 and
\* Credit = -Amount if Amount < 0 else 0, on both backends.
C8_AmountSplitIntoDebitCredit ==
    \A k \in 1..Len(allRows) :
        "Amount" \in DOMAIN allRows[k] =>
            /\ ToNumeric(allRows[k]["Debit"]) = PositivePart(ToNumeric(allRows[k]["Amount"]))
            /\ ToNumeric(allRows[k]["Credit"]) = PositivePart(-ToNumeric(allRows[k]["Amount"]))

\* the column of a matched file that holds the account codes
AccountColumn(f) == IF "AccountCode" \in Range(f.cols) THEN "AccountCode" ELSE "Account"

\* the master row at position o is the j-th row of file f
SameRow(o, f, j) ==
    /\ master.rows[o]["AccountCode"] = f.rows[j][AccountColumn(f)]
    /\ \A c \in {"Debit", "Credit"} \cap Range(f.cols) :
          ToNumeric(master.rows[o][c]) = ToNumeric(f.rows[j][c])

\* C9: on a successful run the master holds exactly the rows of all matched
\* files, each file's rows in file order and the files in the order matched;
\* files is the number of matched files and rows the number of data rows
\* written to the master.
C9_MasterHoldsAllRows ==
    (RunOver /\ tbResult.returned /\ tbResult.ok) =>
        /\ master.exists
        /\ Len(master.rows) = RowsOfFirst(Len(matched))
        /\ tbResult.metrics["files"] = Len(matched)
        /\ tbResult.metrics["rows"] = Len(master.rows)
        /\ \A i \in 1..Len(matched) :
              \A j \in 1..Len(matched[i].rows) :
                  SameRow(RowsOfFirst(i - 1) + j, matched[i], j)

\* C9 witness: a successful run merged two files of two rows each
C9_Witness ==
    /\ RunOver /\ tbResult.returned /\ tbResult.ok
    /\ Len(matched) = 2
    /\ Len(matched[1].rows) = 2 /\ Len(matched[2].rows) = 2
    /\ Len(master.rows) = 4
    /\ tbResult.metrics["files"] = 2

\* C10 (as claimed): two runs in a row on the same configuration and the
\* same TB files give the same result and metrics and leave the same master.
C10_SecondRunEqualsFirst ==
    Len(outcomes) >= 2 => outcomes[2] = outcomes[1]

(***************************************************************************)
(* Claims about FXTranslator (checked under SpecFX).                       *)
(***************************************************************************)
\* run has come to its end and returned ok=True
FxSucceeded == fxpc = "done" /\ fxResult.returned /\ fxResult.ok

\* a Debit or Credit as the claim counts it: the number, 0 when missing or empty
AmountOrZero(r, key) ==
    IF key \in DOMAIN r /\ r[key].t \in {"num", "numtext"} THEN r[key].n ELSE 0

\* the rate file lists rate for the currency of the cell
RateListed(cell, rate) ==
    \E k \in 1..Len(fxRates.rows) :
        /\ fxRates.rows[k]["CurrencyCode"] = cell
        /\ ToNumeric(fxRates.rows[k]["FXRate"]) = rate

\* cell holds the number n
HoldsNumber(cell, n) == cell.t \in {"num", "numtext"} /\ cell.n = n

\* cell holds x rounded to 2 decimals, x = p / 10^6 (cells are in thousandths)
HoldsRounded(cell, p) ==
    /\ cell.t \in {"num", "numtext"}
    /\ cell.n % 10 = 0
    /\ Abs(cell.n * 1000 - p) <= 5000

\* C11 (as claimed): on a successful run every row of the adjusted TB has
\* FXRate = the rate listed for the row's CurrencyCode, LocalAmount = Debit -
\* Credit with a missing or empty Debit/Credit counted as 0, and
\* ReportingCurrencyAmount = round(LocalAmount * FXRate, 2).
C11_AdjustedRows ==
    FxSucceeded =>
        /\ Len(fxOut.adjusted_tb.rows) = Len(fxMaster.rows)
        /\ \A i \in 1..Len(fxMaster.rows) :
              LET src == fxMaster.rows[i]
                  adj == fxOut.adjusted_tb.rows[i]
                  local == AmountOrZero(src, "Debit") - AmountOrZero(src, "Credit")
              IN  /\ RateListed(src["CurrencyCode"], ToNumeric(adj["FXRate"]))
                  /\ HoldsNumber(adj["LocalAmount"], local)
                  /\ HoldsRounded(adj["ReportingCurrencyAmount"],
                                  local * ToNumeric(adj["FXRate"]))

\* a currency code as a message prints it
CodeText(cell) == IF cell.t = "text" THEN cell.s ELSE "nan"

\* the currencies of the master rows that the rate table has no entry for
CodesWithoutRate ==
    {CodeText(fxMaster.rows[i]["CurrencyCode"]) :
        i \in {j \in 1..Len(fxMaster.rows) :
                  \A k \in 1..Len(fxRates.rows) :
                      fxRates.rows[k]["CurrencyCode"] # fxMaster.rows[j]["CurrencyCode"]}}

\* both inputs exist and the master has a CurrencyCode column
FxInputsLoad ==
    fxMaster.exists /\ fxRates.exists /\ "CurrencyCode" \in Range(fxMaster.cols)

\* C12 (as claimed): if some master row's currency has no entry in the rate
\* table, run returns ok=False with one message listing each distinct missing
\* currency exactly once, and neither output file is written.
C12_MissingRateFails ==
    (fxpc = "done" /\ FxInputsLoad /\ CodesWithoutRate # {}) =>
        /\ fxResult.returned /\ ~fxResult.ok
        /\ Len(fxResult.messages) = 1
        /\ fxResult.messages[1][1] = "Missing FX rates for"
        /\ Range(fxResult.messages[1][2]) = CodesWithoutRate
        /\ Len(fxResult.messages[1][2]) = Cardinality(CodesWithoutRate)
        /\ fxOut = fxOut0

\* the metrics of a result apart from the tolerance
OtherMetrics(m) == [k \in DOMAIN m \ {"tolerance"} |-> m[k]]

\* C13: two runs on the same master TB and rate table that differ only in
\* the configured tolerance return, raise and succeed alike, give the same
\* messages and leave the same two output files; their metrics differ at most
\* under "tolerance", which records the configured value, 5 when none is set.
C13_ToleranceNeverGates ==
    /\ Len(fxOutcomes) >= 2 =>
          /\ fxOutcomes[1].result.returned = fxOutcomes[2].result.returned
          /\ fxOutcomes[1].result.raised = fxOutcomes[2].result.raised
          /\ fxOutcomes[1].result.ok = fxOutcomes[2].result.ok
          /\ fxOutcomes[1].result.messages = fxOutcomes[2].result.messages
          /\ fxOutcomes[1].out = fxOutcomes[2].out
          /\ DOMAIN fxOutcomes[1].result.metrics = DOMAIN fxOutcomes[2].result.metrics
          /\ OtherMetrics(fxOutcomes[1].result.metrics) = OtherMetrics(fxOutcomes[2].result.metrics)
    /\ \A k \in 1..Len(fxOutcomes) :
          fxOutcomes[k].result.ok =>
              fxOutcomes[k].result.metrics["tolerance"] =
                  (IF fxOutcomes[k].tol.set THEN fxOutcomes[k].tol.v ELSE 5)

\* C13 witness: two successful runs on two rows, the first without a
\* configured tolerance (recorded as 5), the second with tolerance 0
C13_Witness ==
    /\ Len(fxOutcomes) = 2
    /\ fxOutcomes[1].result.ok /\ fxOutcomes[2].result.ok
    /\ ~fxOutcomes[1].tol.set /\ fxOutcomes[1].result.metrics["tolerance"] = 5
    /\ fxOutcomes[2].tol.set /\ fxOutcomes[2].result.metrics["tolerance"] = 0
    /\ Len(fxOutcomes[2].out.adjusted_tb.rows) = 2

(***************************************************************************)
(* Claims about ClientEngagementLetterDraft (checked under SpecLetters).   *)
(***************************************************************************)
\* the metadata, service-line and template files all exist
LetterInputsLoad == celMeta.exists /\ celService.exists /\ celTemplate.exists

\* the service-line codes a record of the metadata file names
CodesNamed(r) == {CodeUpper(c) : c \in Range(SplitCodes(r["ServiceLines"].s))}

\* the codes the service-line reference file lists with a rate
RatedCodes ==
    {CodeUpper(celService.rows[k]["Code"].s) :
        k \in {j \in 1..Len(celService.rows) : celService.rows[j]["Rate"] # Text("")}}

\* a record of the metadata file that lacks a name, an ID, a fiscal year or
\* any code, or names a code that is unknown or has no rate
Defective(r) ==
    \/ r["ClientName"] = Text("")
    \/ r["ClientID"] = Text("")
    \/ r["FiscalYear"] = Text("")
    \/ CodesNamed(r) = {}
    \/ \E c \in CodesNamed(r) : c \notin RatedCodes

DefectiveRecords == {i \in 1..Len(celMeta.rows) : Defective(celMeta.rows[i])}

\* C14 (as claimed): when the three inputs load, the run is not aborted and
\* goes through every record; each record lacking a name, an ID, a fiscal
\* year or a code, or naming an unknown or unrated code, is put on the
\* exceptions list with a reason and gets no letter, and each other record
\* gets its letter.
C14_PerRecordIsolation ==
    (cpc = "done" /\ LetterInputsLoad) =>
        /\ celResult.returned
        /\ Len(celTrace) = Len(celMeta.rows)
        /\ \A i \in 1..Len(celTrace) :
              celTrace[i].kind = (IF i \in DefectiveRecords THEN "exception" ELSE "letter")
        /\ Len(exceptions) = Cardinality(DefectiveRecords)
        /\ \A k \in 1..Len(exceptions) :
              exceptions[k].reason[1] \in {"Record missing required fields",
                                           "Service line validation failed"}
        /\ Len(manifest) = Len(celMeta.rows) - Cardinality(DefectiveRecords)

\* C15 (as claimed): when the three inputs load, run returns ok=True exactly
\* when at least one letter was generated and the exceptions list is empty.
C15_OkIffLettersAndNoExceptions ==
    (cpc = "done" /\ LetterInputsLoad) =>
        ((celResult.returned /\ celResult.ok) <=> (manifest # <<>> /\ exceptions = <<>>))

\* C16 (as claimed): two different clients that both get a letter in one run
\* get different output paths, and the letters folder ends up holding as many
\* letter files as letters_generated says.
C16_UniqueOutputPaths ==
    /\ \A i, j \in 1..Len(manifest) :
          manifest[i].client_id # manifest[j].client_id =>
              manifest[i].output_path # manifest[j].output_path
    /\ (cpc = "done" /\ celResult.returned /\ celResult.ok) =>
          Cardinality(DOMAIN celOut.letters) = celResult.metrics["letters_generated"]

\* the prior-year letter of a manifest entry, under the naming convention
PriorNameOf(e) ==
    LetterName(Slugify(e.client_name.s), PrevYear(CellStr(e.fiscal_year)))

\* that letter exists in the configured prior-letters folder
PriorExists(e) ==
    /\ celPrior.configured
    /\ celPrior.exists
    /\ PrevYear(CellStr(e.fiscal_year)) # ""
    /\ PriorNameOf(e) \in DOMAIN celPrior.files

\* C17 (as claimed): a client whose prior-year letter exists has source
\* "rolled_forward" and a letter built from the prior letter's text; every
\* other client has source "template" and a letter built from the template.
C17_RolledForwardIffPriorExists ==
    \A k \in 1..Len(manifest) :
        IF PriorExists(manifest[k])
        THEN /\ manifest[k].source = "rolled_forward"
             /\ celOut.letters[manifest[k].output_path].base
                    = celPrior.files[PriorNameOf(manifest[k])]
        ELSE /\ manifest[k].source = "template"
             /\ celOut.letters[manifest[k].output_path].base = celTemplate.text

\* C17 (amended): a client whose prior-year letter exists and is not empty
\* has source "rolled_forward" and a letter built from the prior letter's
\* text; every other client, one whose prior letter is an empty file
\* included, has source "template" and a letter built from the template.
C17_RolledForwardIffPriorHasText ==
    \A k \in 1..Len(manifest) :
        IF PriorExists(manifest[k]) /\ celPrior.files[PriorNameOf(manifest[k])] # <<>>
        THEN /\ manifest[k].source = "rolled_forward"
             /\ celOut.letters[manifest[k].output_path].base
                    = celPrior.files[PriorNameOf(manifest[k])]
        ELSE /\ manifest[k].source = "template"
             /\ celOut.letters[manifest[k].output_path].base = celTemplate.text

\* C17 witness: one run that rolls Acme Inc forward from its FY2023 letter
\* and drafts Beta LLC, which has no prior letter, from the template
C17_Witness ==
    /\ cpc = "done"
    /\ celResult.ok
    /\ Len(manifest) = 2
    /\ manifest[1].source = "rolled_forward"
    /\ celOut.letters[manifest[1].output_path].base = PriorAcme
    /\ manifest[2].source = "template"
    /\ celOut.letters[manifest[2].output_path].base = celTemplate.text
    /\ rolled_forward = 1

(***************************************************************************)
(* Claims about the parameters of a step (checked under SpecParams).       *)
(***************************************************************************)
\* the parameters a step cannot do without
RequiredParams(name) ==
    CASE name = "TBCollector" -> {"required_columns"}
      [] name = "FXTranslator" -> {}
      [] name = "PDFAssembler" -> {"include"}
      [] OTHER -> {"client_metadata", "service_lines", "template_path"}

\* C18 (as claimed): for each of the four step types, when a parameter the
\* step requires is absent from its configuration, plan_io raises and
\* neither the before hook nor run is entered.
C18_MissingParamRaisedInPlanIO ==
    ~(RequiredParams(step_name) \subseteq ParamsOf(step_cfg)) =>
        /\ "before" \notin Range(calls)
        /\ "run" \notin Range(calls)
        /\ (calls # <<>> => raisedIn = "plan_io")

(***************************************************************************)
(* Claims about missing input files (FXTranslator under SpecFX, the        *)
(* letter step under SpecLetters).                                         *)
(***************************************************************************)
\* the letter step: a missing metadata, service-line or template file ends
\* the run with ok=False and a message, and nothing is written
LettersMissingInputCaught ==
    (cpc = "done" /\ ~LetterInputsLoad) =>
        /\ celResult.returned /\ ~celResult.ok
        /\ celResult.messages # <<>>
        /\ celOut = NoLetters

\* C19 (as claimed): when the master TB or the rate file of FXTranslator, or
\* the metadata, service-line or template file of the letter step, is absent,
\* run does not raise: it returns ok=False with a message and writes no
\* output file or folder.
C19_MissingInputCaught ==
    /\ (fxpc = "done" /\ ~(fxMaster.exists /\ fxRates.exists)) =>
          /\ fxResult.returned /\ ~fxResult.ok
          /\ fxResult.messages # <<>>
          /\ fxOut = fxOut0
    /\ LettersMissingInputCaught

(***************************************************************************)
(* Claims about PDFAssembler (checked under SpecPDF).                      *)
(***************************************************************************)
\* the positions of the include list whose source the run did not find
MissingSources == {i \in 1..Len(include) : ~pdfDisk0[include[i]].exists}

FirstMissing == CHOOSE i \in MissingSources : \A j \in MissingSources : i <= j

\* C20: if a source of the include list does not exist, run raises the
\* file-not-found error and returns no result; the support file is as the
\* run found it (absent, or with its earlier content); the renderings of
\* the sources listed before the first missing one are on disk.
C20_MissingSourceRaises ==
    (pdfpc = "done" /\ MissingSources # {}) =>
        /\ pdfResult.raised /\ ~pdfResult.returned
        /\ pdfResult.messages = <<"FileNotFoundError">>
        /\ pdfDisk[SupportPath] = pdfDisk0[SupportPath]
        /\ \A j \in 1..(FirstMissing - 1) :
              pdfDisk[WithSuffixPdf(include[j])] =
                  [exists |-> TRUE, data |-> SimplePdfText(SourceRows(include[j]))]

\* C20 witness: the second of two sources is missing; the run raised, the
\* rendering of the first is on disk and no support file was created
C20_Witness ==
    /\ pdfpc = "done"
    /\ Len(include) = 2
    /\ MissingSources = {2}
    /\ pdfResult.raised
    /\ pdfDisk[WithSuffixPdf(include[1])].exists
    /\ ~pdfDisk0[WithSuffixPdf(include[1])].exists
    /\ ~pdfDisk[SupportPath].exists

\* the renderings of the sources, one after the other
RECURSIVE Renderings(_)
Renderings(srcs) ==
    IF srcs = <<>> THEN <<>>
    ELSE SimplePdfText(SourceRows(Head(srcs))) \o Renderings(Tail(srcs))

\* the renderings of the sources, an empty line after each
RECURSIVE RenderingsSeparated(_)
RenderingsSeparated(srcs) ==
    IF srcs = <<>> THEN <<>>
    ELSE SimplePdfText(SourceRows(Head(srcs))) \o <<EmptyLine>>
         \o RenderingsSeparated(Tail(srcs))

\* each rendering on disk has one line per row of its source, the values of
\* the row joined by " | ", up to the first 1000 rows
RenderingsCapped ==
    \A i \in 1..Len(include) :
        /\ Len(pdfDisk[WithSuffixPdf(include[i])].data) =
              (IF Len(SourceRows(include[i])) < 1000
               THEN Len(SourceRows(include[i])) ELSE 1000)
        /\ \A k \in 1..Len(pdfDisk[WithSuffixPdf(include[i])].data) :
              /\ pdfDisk[WithSuffixPdf(include[i])].data[k].parts = SourceRows(include[i])[k]
              /\ pdfDisk[WithSuffixPdf(include[i])].data[k].sep = " | "

\* C21 (as claimed): on success the support file is the concatenation, in
\* the order of the include list, of the renderings of the sources; each
\* rendering has one line per row, values joined by " | ", first 1000 rows
\* only; source_pdfs is the number of included sources.
C21_OutputIsConcatenation ==
    (pdfpc = "done" /\ pdfResult.ok) =>
        /\ pdfDisk[SupportPath].data = Renderings(include)
        /\ RenderingsCapped
        /\ pdfResult.metrics["source_pdfs"] = Len(include)

\* C21 (amended): on success the support file holds, in the order of the
\* include list, the rendering of each source followed by one empty line;
\* each rendering has one line per row, values joined by " | ", first 1000
\* rows only; source_pdfs is the number of included sources.
C21_OutputIsSeparatedConcatenation ==
    (pdfpc = "done" /\ pdfResult.ok) =>
        /\ pdfDisk[SupportPath].exists
        /\ pdfDisk[SupportPath].data = RenderingsSeparated(include)
        /\ RenderingsCapped
        /\ pdfResult.metrics["source_pdfs"] = Len(include)

\* C21 witness: the master TB (2 rows) and the notes table (1001 rows) are
\* merged; the support file has 2 + 1 + 1000 + 1 lines
C21_Witness ==
    /\ pdfpc = "done"
    /\ pdfResult.ok
    /\ include = <<"tb/Master_TB_202301.xlsx", "tb/Notes_202301.xlsx">>
    /\ Len(pdfDisk[SupportPath].data) = 1004
    /\ pdfDisk[SupportPath].data[1] = [sep |-> " | ", parts |-> <<1, 2>>]
    /\ pdfDisk[SupportPath].data[3] = EmptyLine

(***************************************************************************)
(* More claims about ClientEngagementLetterDraft (under SpecLetters).      *)
(***************************************************************************)
MergeFields == {"ClientName", "ClientID", "FiscalYear", "ServiceSummary", "GeneratedOn"}

\* the letter written last: its manifest entry and its file
LastEntry == manifest[Len(manifest)]
LastLetter == celOut.letters[LastEntry.output_path]

\* the piece the merge puts in place of a merge field of the last letter
MergedValue(field) ==
    CASE field = "ClientName" -> LastEntry.client_name.s
      [] field = "ClientID" -> CellStr(LastEntry.client_id)
      [] field = "FiscalYear" -> CellStr(LastEntry.fiscal_year)
      [] OTHER -> UtcNow

\* the text holds the summary of the client's service lines, code by code
HoldsSummary(text, codes) ==
    \E i \in 1..Len(text) :
        /\ text[i].k = "summary"
        /\ Len(text[i].d) = Len(codes)
        /\ \A c \in 1..Len(codes) : text[i].d[c].code = codes[c]

\* the text says FY<year>, written out or as FY followed by the year
HoldsFY(text, year) ==
    \E i \in 1..Len(text) :
        \/ (text[i].k = "fy" /\ text[i].v = year)
        \/ (text[i].k = "lit" /\ text[i].v = "FY" /\ i < Len(text)
            /\ text[i + 1].k = "val" /\ text[i + 1].v = year)

\* C22: in every generated letter each of the five merge fields of the base
\* text is replaced by the client's value, every other placeholder and all
\* other wording of the base text is kept, and the letter holds the client's
\* service summary and FY<fiscal year>; the summary is appended when the
\* base text has no {{ServiceSummary}}, the fiscal-year line when the merged
\* text does not say FY<fiscal year>, and nothing else is appended.
C22_MergeAndAppend ==
    manifest # <<>> =>
        /\ Len(LastLetter.text) >= Len(LastLetter.base)
        /\ \A i \in 1..Len(LastLetter.base) :
              IF LastLetter.base[i].k = "ph" /\ LastLetter.base[i].v \in MergeFields
              THEN IF LastLetter.base[i].v = "ServiceSummary"
                   THEN LastLetter.text[i].k = "summary"
                   ELSE /\ LastLetter.text[i].k = "val"
                        /\ LastLetter.text[i].v = MergedValue(LastLetter.base[i].v)
              ELSE LastLetter.text[i] = LastLetter.base[i]
        /\ HoldsSummary(LastLetter.text, LastEntry.service_lines)
        /\ HoldsFY(LastLetter.text, CellStr(LastEntry.fiscal_year))
        /\ Len(LastLetter.text) = Len(LastLetter.base)
              + (IF \E i \in 1..Len(LastLetter.base) :
                        LastLetter.base[i].k = "ph" /\ LastLetter.base[i].v = "ServiceSummary"
                 THEN 0 ELSE 2)
              + (IF HoldsFY(SubSeq(LastLetter.text, 1, Len(LastLetter.base)),
                            CellStr(LastEntry.fiscal_year))
                 THEN 0 ELSE 2)

\* C22 witness: a letter drafted from the template that names the client
\* twice and has neither summary nor fiscal year: both names are replaced,
\* {{Partner}} stays, and the summary and the fiscal-year line are appended
C22_Witness ==
    /\ manifest # <<>>
    /\ LastLetter.base = <<Lit("Dear"), Placeholder("ClientName"), Placeholder("Partner"),
                           Placeholder("ClientName")>>
    /\ LastLetter.text = <<Lit("Dear"), Value("Acme Inc"), Placeholder("Partner"),
                           Value("Acme Inc"),
                           Lit("Service Summary:"),
                           Summary(<<[code |-> "TAX", rate |-> Text("250")]>>),
                           Lit("Fiscal Year:"), FYText("2024")>>

(***************************************************************************)
(* Claims about the tabular codec (checked under SpecCodec).               *)
(***************************************************************************)
\* str(value)
Shown(cell) ==
    CASE cell.t = "num" -> NumText(cell.n)
      [] cell.t = "nan" -> Text("nan")
      [] cell.t = "none" -> Text("None")
      [] OTHER -> cell

\* a value and what was read back for it are equal up to their type: they
\* print alike, or both are one of the empty values None, "" and NaN
SameModuloType(a, b) ==
    \/ Shown(a) = Shown(b)
    \/ (EmptyValued(a) /\ EmptyValued(b))

\* what was read back is the table that was written
RoundTrips ==
    /\ Len(cdBack.rows) = Len(cdRows)
    /\ cdBack.cols = cdCols
    /\ \A i \in 1..Len(cdBack.rows) :
          /\ DOMAIN cdBack.rows[i] = DOMAIN cdRows[i]
          /\ \A c \in DOMAIN cdRows[i] : SameModuloType(cdRows[i][c], cdBack.rows[i][c])

RECURSIVE IdCount(_)
IdCount(data) ==
    IF data = <<>> THEN 0 ELSE 1 + Len(Head(data).toolsets) + IdCount(Tail(data))

\* C24: in every catalogue file, after any sequence of register_tutorial
\* calls, the step ids and the toolset ids are pairwise distinct: there are as
\* many different identifiers as there are entries and toolsets.
C24_IdentifiersUnique ==
    \A p \in CatalogPaths :
        catFiles[p].exists =>
            Cardinality(UsedIds(catFiles[p].data)) = IdCount(catFiles[p].data)

\* two calls went to one catalogue that now holds two steps with a toolset each
C24_Witness ==
    /\ catCalls = 2
    /\ catCall.found_ids # {}
    /\ catFiles[catCall.final].exists
    /\ Len(catFiles[catCall.final].data) = 2
    /\ IdCount(catFiles[catCall.final].data) = 4

\* the entry of that name in a catalogue
EntryOf(data, name) == data[StepIndex(data, name)]

\* the catalogue the last call wrote
Written == catFiles[catCall.final].data

\* the first position at which a tool list gives a name, once simplified
FirstAppearance(tools, name) ==
    CHOOSE k \in 1..Len(tools) :
        /\ SimplifyToolName(tools[k]) = name
        /\ \A j \in 1..(k - 1) : SimplifyToolName(tools[j]) # name

\* stored is the list of the names tools gives, each once, in the order in
\* which they first appear
DeDuplicated(stored, tools) ==
    /\ Range(stored) = {SimplifyToolName(tools[k]) : k \in 1..Len(tools)} \ {<<>>}
    /\ \A i, j \in 1..Len(stored) :
        i < j => FirstAppearance(tools, stored[i]) < FirstAppearance(tools, stored[j])

\* the last call found both its step and its tutorial in the catalogue
ReRegistered == catCall.found_step # "" /\ catCall.found_toolset # ""

\* the toolset of the last call's tutorial in the entry of the last call's step
ToolsetWritten ==
    The({ ts[ToolsetIndex(ts, NormaliseTutorialReference(catCall.tutorial_path))]
          : ts \in {EntryOf(Written, catCall.step_name).toolsets} })

\* C25: register_tutorial is an upsert.  Every catalogue has at most one entry
\* per step name and every entry at most one toolset per tutorial reference, a
\* leading notebooks prefix ignored; a call that finds its step and its
\* tutorial keeps the step id and the toolset id and replaces the description
\* and the tools, de-duplicated in the order of first appearance.
C25_Upsert ==
    /\ \A p \in CatalogPaths : \A i, j \in 1..Len(catFiles[p].data) :
        /\ catFiles[p].data[i].name = catFiles[p].data[j].name => i = j
        /\ \A a, b \in 1..Len(catFiles[p].data[i].toolsets) :
            NormaliseTutorialReference(catFiles[p].data[i].toolsets[a].tutorial)
              = NormaliseTutorialReference(catFiles[p].data[i].toolsets[b].tutorial)
            => a = b
    /\ ReRegistered =>
        /\ EntryOf(Written, catCall.step_name).id = catCall.found_step
        /\ EntryOf(Written, catCall.step_name).description = catCall.description
        /\ ToolsetWritten.id = catCall.found_toolset
        /\ DeDuplicated(ToolsetWritten.tools, catCall.tools)

\* a notebook registered under its bare name was found under the name with the
\* prefix, and its tools, given with a repetition, were replaced
C25_Witness ==
    /\ ReRegistered
    /\ catCall.tutorial_path = <<"example.ipynb">>
    /\ ToolsetWritten.tools = <<<<"Tool", "B">>, <<"Tool", "A">>>>
    /\ EntryOf(Written, catCall.step_name).description = "Refreshed description"

\* the catalogue files of the notebooks directory that hold the step
Holders(name) ==
    {p \in CatalogPaths :
        p.dir = DefaultCatalogDirectory /\ HoldsStep(catFiles, p, name)}

\* the last call was made without catalog_path
DefaultLocation == catCalls > 0 /\ catCalls <= MaxCalls /\ catCall.catalog_path = NoPath

\* C26: after a call without catalog_path exactly one catalogue file of the
\* notebooks directory holds the step, and it is named after the id of the
\* step's entry; a catalogue found under another name is gone and its entries
\* are in the new file.
C26_OneCatalogueNamedById ==
    DefaultLocation =>
        /\ Holders(catCall.step_name)
             = {InNotebooks(EntryOf(Written, catCall.step_name).id)}
        /\ (catCall.path # NoPath /\ catCall.path # catCall.final) =>
            /\ ~catFiles[catCall.path].exists
            /\ catCall.found_ids \subseteq UsedIds(Written)

(***************************************************************************)
(* More claims about run_pipeline (checked under SpecRunner).              *)
(***************************************************************************)
\* the logical names of m whose path is a regular file on disk
NamesOfFiles(m) == {k \in DOMAIN m : disk[m[k]].kind = "file"}

\* the log of the step that has just completed: until the next step plans,
\* io and disk are as they were when the log was built
JustLogged == rpc \in {"loop", "returned"} /\ logs # <<>>

\* C27: the StepLog of a step that has completed has an input hash (an output
\* hash) for exactly the logical names whose planned path is a regular file
\* at that moment; directories and missing paths are left out, and no hash in
\* any log is the empty string.
C27_HashesOfExistingFilesOnly ==
    /\ JustLogged =>
        /\ DOMAIN logs[Len(logs)].input_hashes = NamesOfFiles(io.inputs)
        /\ DOMAIN logs[Len(logs)].output_hashes = NamesOfFiles(io.outputs)
    /\ \A i \in 1..Len(logs) :
        /\ \A k \in DOMAIN logs[i].input_hashes : logs[i].input_hashes[k] # EmptyStr
        /\ \A k \in DOMAIN logs[i].output_hashes : logs[i].output_hashes[k] # EmptyStr

\* TBCollector's folder is a directory and FXTranslator's master TB is
\* missing: the one log has no input hash, the other only that of the rates
C27_Witness ==
    /\ JustLogged
    /\ pipeline = <<"TBCollector", "FXTranslator">>
    /\ Len(logs) = 2
    /\ DOMAIN logs[1].input_hashes = {}
    /\ DOMAIN logs[2].input_hashes = {"fx_rates"}
    /\ DOMAIN logs[2].output_hashes = {"adjusted_tb", "fx_adjustments"}

\* C30: once a step has raised (an unregistered name, plan_io, before, run or
\* after), run_pipeline does nothing more: nothing is returned, the logs of
\* the completed steps stay undelivered, no later step has run or will, and
\* the files the completed steps and the raising step wrote are on disk.
C30_RaisePropagates ==
    rpc = "raised" =>
        /\ ~retval.delivered
        /\ retval.logs = <<>>
        /\ Len(logs) = idx - 1
        /\ \A n \in 1..Len(hist) : hist[n].i <= idx
        /\ \A i \in 1..Len(logs) : \A k \in DOMAIN logs[i].output_hashes :
            IsFile(disk, PlanIOOf(pipeline[i]).outputs[k])
        /\ ~ENABLED NextRunner

\* the second step raised in run after writing its outputs, the first had
\* completed and written its own
C30_Witness ==
    /\ rpc = "raised"
    /\ idx = 2
    /\ Len(logs) = 1
    /\ DOMAIN logs[1].output_hashes # {}
    /\ hist[Len(hist)].ev = "run"
    /\ \E p \in Paths : disk[p] = File(2)
    /\ \E p \in Paths : disk[p] = File(1)

(***************************************************************************)
(* More claims about FXTranslator (checked under SpecFX).                  *)
(***************************************************************************)
\* C28: on a successful run the FX-adjustments extract has one row per row of
\* the master TB, in the same order, with the columns EntityCode, AccountCode,
\* LocalAmount, FXRate, ReportingCurrencyAmount and Period; the first two are
\* the master row's, the three amounts are those of the same row of the
\* adjusted TB, and Period is the configured period whatever the row's own;
\* both outputs have as many rows as the rows metric says.
C28_ExtractMirrorsMaster ==
    FxSucceeded =>
        /\ Len(fxOut.fx_adjustments.rows) = Len(fxMaster.rows)
        /\ Len(fxOut.adjusted_tb.rows) = Len(fxMaster.rows)
        /\ fxResult.metrics["rows"] = Len(fxMaster.rows)
        /\ \A i \in 1..Len(fxMaster.rows) :
            /\ DOMAIN fxOut.fx_adjustments.rows[i]
                 = {"EntityCode", "AccountCode", "LocalAmount", "FXRate",
                    "ReportingCurrencyAmount", "Period"}
            /\ \A c \in {"EntityCode", "AccountCode"} :
                fxOut.fx_adjustments.rows[i][c] = fxMaster.rows[i][c]
            /\ \A c \in {"LocalAmount", "FXRate", "ReportingCurrencyAmount"} :
                fxOut.fx_adjustments.rows[i][c] = fxOut.adjusted_tb.rows[i][c]
            /\ fxOut.fx_adjustments.rows[i]["Period"] = Text(Period)

\* two rows of different entities, both of another period, were translated
C28_Witness ==
    /\ FxSucceeded
    /\ Len(fxOut.fx_adjustments.rows) = 2
    /\ fxMaster.rows[1]["EntityCode"] # fxMaster.rows[2]["EntityCode"]
    /\ fxOut.adjusted_tb.rows[1]["Period"] = Text("202212")
    /\ fxOut.fx_adjustments.rows[1]["Period"] = Text("202301")
    /\ fxOut.fx_adjustments.rows[2]["EntityCode"] = fxMaster.rows[2]["EntityCode"]

(***************************************************************************)
(* More claims about ClientEngagementLetterDraft (checked under            *)
(* SpecLetters).                                                           *)
(***************************************************************************)
\* the records the loop gave that outcome
RecordsOfKind(kind) == {i \in 1..Len(celTrace) : celTrace[i].kind = kind}

\* C29 (as claimed): when the three inputs load, the manifest and the
\* notification log are written, every record of the metadata file is either
\* on the manifest's letters list or on its exceptions list and on one only,
\* and letters_generated + exceptions = clients_processed.
C29_EveryRecordListedOnce ==
    (cpc = "done" /\ LetterInputsLoad) =>
        /\ celOut.manifest.exists
        /\ celOut.notification > 0
        /\ Len(celTrace) = Len(celMeta.rows)
        /\ \A i \in 1..Len(celTrace) :
              celTrace[i].rec = i /\ celTrace[i].kind \in {"letter", "exception"}
        /\ Len(celOut.manifest.letters) = Cardinality(RecordsOfKind("letter"))
        /\ Len(celOut.manifest.exceptions) = Cardinality(RecordsOfKind("exception"))
        /\ "letters_generated" \in DOMAIN celMetrics
        /\ celMetrics["letters_generated"] + celMetrics["exceptions"]
             = celMetrics["clients_processed"]

====
